---- MODULE Spec2Model ----
(***************************************************************************)
(* PingLater: the webhook delivery and retry subsystem                     *)
(* (internal/services/webhook.go, internal/api/handlers/webhooks.go,       *)
(* internal/models/webhook.go).                                            *)
(*                                                                         *)
(* The state is the two database tables (webhooks, webhook_deliveries),    *)
(* the goroutines in flight (one per fan-out delivery, one per retry, one  *)
(* per test request), the wall clock in minutes and the retry ticker.      *)
(***************************************************************************)
EXTENDS Integers, Sequences, FiniteSets, TLC

\* ------------------------------------------------------------------ bounds
MaxWebhooks == 1      \* webhooks ever created (ids are never reused)
MaxDeliveries == 1    \* delivery records ever created
MaxTasks == 2         \* goroutines in flight together
TimeSlack == 1        \* minutes sampled after the last backoff milestone
RotationHorizon == 6  \* last minute of the secret-rotation runs
FanoutWebhooks == 2   \* webhooks ever created in the fan-out runs
FanoutDeliveries == 2 \* delivery records ever created in the fan-out runs
StoreWebhooks == 1    \* webhooks ever created in the handler runs
StoreDeliveries == 1  \* delivery records ever created in the handler runs
StopHorizon == 6      \* last minute of the shutdown runs
MaxRetryCount == 8    \* largest retry count handed to calculateNextRetry on its own
MaxCallNow == 5       \* latest minute at which calculateNextRetry is called on its own

ReadWebhooks == 2     \* webhooks in the specification of the read handlers
ReadDeliveries == 3   \* delivery rows in the specification of the read handlers
SignHorizon == 1      \* last minute of the signing runs
SignDeliveries == 2   \* delivery rows in the signing runs
SecretWebhooks == 2   \* webhooks in the runs that vary the secrets
SlowWebhooks == 2     \* webhooks, and delivery rows, in the runs with a slow endpoint
SlowHorizon == 1      \* last minute of the runs with a slow endpoint
StatsHorizon == 1     \* last minute of the runs with statistics read in steps
StatsDeliveries == 2  \* delivery rows in the runs with statistics read in steps
MaxChans == 2         \* channels Subscribe ever makes
MaxCallers == 2       \* goroutines inside the EventStream together

\* ------------------------------------------------------- program constants
MaxRetries == 5       \* the retry ceiling: "retry_count < 5"
TickMinutes == 1      \* time.NewTicker(1 * time.Minute)
NULL == -1            \* a nil *time.Time (times are >= 0)

\* calculateNextRetry's table, in minutes
intervals == <<1, 5, 15, 30, 60>>

\* A Go string that the code splits, trims, folds or strips is a sequence of
\* tokens: "," and " " are the characters the code looks for, a digit is a
\* digit, and any other token is a run of other characters. A token in upper
\* case is the upper-case spelling of the token Lower gives for it. Strings
\* the code only compares and copies (URL, secret, description) are atoms.
Str(token) == <<token>>
Lower(token) ==
    CASE token = "CONNECTED" -> "connected"
      [] token = "G1" -> "g1"
      [] token = "FAMILY" -> "family"
      [] OTHER -> token
Digits == {"0", "1", "2", "3", "4", "5", "6", "7", "8", "9"}
Whitespace == {" "}

\* A Go slice of strings: nil, or a sequence (possibly empty).
NilSlice == [nil |-> TRUE, v |-> <<>>]
Slice(v) == [nil |-> FALSE, v |-> v]
len(slice) == Len(slice.v)

Users == {1}
EventTypes == {Str("connected")}

\* What the endpoint does with one POST: no response at all (DNS, connect,
\* timeout), or a response with a status code.
TransportError == 0
EndpointBehaviours == {TransportError, 200, 500}

WebhookIds == 1..MaxWebhooks
TaskIds == 1..MaxTasks

VARIABLES
    now,            \* time.Now(), in minutes since the service was constructed
    ticked,         \* the retry loop has taken the tick of this minute
    webhooks,       \* table webhooks: id -> row
    nextWebhookID,  \* AUTOINCREMENT of table webhooks
    deliveries,     \* table webhook_deliveries: id -> row
    nextDeliveryID, \* AUTOINCREMENT of table webhook_deliveries
    tasks,          \* goroutines in flight: slot -> goroutine state
    response,       \* the HTTP response a handler wrote in the last step, if any
    retrySends,     \* history: delivery id -> re-attempts completed for it
    skipped,        \* history: delivery ids whose retry was skipped (inactive webhook)
    service,        \* the WebhookService: stopChan, the retry loop, the call of Stop
    call,           \* a function called on its own: its arguments and its result
    stream          \* the EventStream, its channels and the goroutines calling it

vars == <<now, ticked, webhooks, nextWebhookID, deliveries, nextDeliveryID,
          tasks, response, retrySends, skipped, service, call, stream>>

Idle == [kind |-> "idle"]
NoResponse == [op |-> "none"]
NoCall == [fn |-> "none"]

\* The service after GetWebhookService: stopChan open, processRetries blocked
\* in its select, no due rows in hand, Stop not called.
Running == [stopChan |-> "open", loop |-> "select", due |-> <<>>, stop |-> "none"]

\* make(chan Event, 10)
ChanBuffer == 10

\* The goroutines that call the EventStream; one that is in none of its
\* methods is Outside.
Callers == 1..MaxCallers
Outside == [op |-> "none"]

\* NewEventStream: no client; Mutex free (no writer, no reader). chans are the
\* channels made so far, each with its buffer and whether it is closed.
\* panicked is set by a send on a closed channel.
NewEventStream ==
    [Clients |-> {}, chans |-> <<>>, Mutex |-> [w |-> 0, r |-> {}],
     callers |-> [p \in Callers |-> Outside], panicked |-> FALSE]

\* ----------------------------------------------------------- pure functions

\* calculateNextRetry reading the table one entry too far.
calculateNextRetryOffByOne(retryCount) ==
    LET i == IF retryCount + 1 >= Len(intervals) THEN Len(intervals) - 1
             ELSE retryCount + 1
    IN  now + intervals[i + 1]

\* calculateNextRetry going round the table instead of staying on its last entry.
calculateNextRetryWraps(retryCount) == now + intervals[(retryCount % Len(intervals)) + 1]

\* calculateNextRetry(retryCount): time.Now() plus the table entry, the index
\* clamped to the last entry.
calculateNextRetry(retryCount) ==
    LET i == IF retryCount >= Len(intervals) THEN Len(intervals) - 1 ELSE retryCount
    IN  now + intervals[i + 1]

\* sendWebhook taking 300 for a success.
sendWebhookUpTo300(behaviour) ==
    IF behaviour = TransportError
    THEN [success |-> FALSE, status |-> 0, body |-> "",
          err |-> "failed to send webhook"]
    ELSE [success |-> behaviour >= 200 /\ behaviour <= 300, status |-> behaviour,
          body |-> IF behaviour = 200 THEN "ok" ELSE "error", err |-> ""]

\* sendWebhook's result tuple for what the endpoint did.
sendWebhook(behaviour) ==
    IF behaviour = TransportError
    THEN [success |-> FALSE, status |-> 0, body |-> "",
          err |-> "failed to send webhook"]
    ELSE [success |-> behaviour >= 200 /\ behaviour < 300, status |-> behaviour,
          body |-> IF behaviour = 200 THEN "ok" ELSE "error", err |-> ""]

\* The request sendWebhook builds: POST url with the payload as body, and the
\* header X-Webhook-Signature when the signature is not the empty string.
Request(url, payload, signature) ==
    [url |-> url, body |-> payload,
     signature_header |-> IF signature # <<>> THEN <<"sha256=">> \o signature
                          ELSE <<>>]

\* calculateSignature: hex(HMAC-SHA256(secret, payload)), one value for each
\* pair of key and message.
calculateSignature(payload, secret) == <<"hmac-sha256", secret, payload>>

\* The signature computed whatever the secret is.
SignWithAnySecret(payload, secret) == calculateSignature(payload, secret)

\* "if webhook.Secret != "" { signature = s.calculateSignature(...) }"
Sign(payload, secret) ==
    IF secret # "" THEN calculateSignature(payload, secret) ELSE <<>>

\* ValidateSignature comparing the presented signature as it comes.
ValidateSignatureKeepsPrefix(payload, secret, signature) ==
    IF secret = "" \/ signature = <<>> THEN FALSE
    ELSE signature = calculateSignature(payload, secret)

\* ValidateSignature: false for an empty secret or signature; otherwise the
\* presented signature, without one leading "sha256=", is compared with the
\* signature computed from the payload and the secret.
ValidateSignature(payload, secret, signature) ==
    IF secret = "" \/ signature = <<>> THEN FALSE
    ELSE LET sig == IF Head(signature) = "sha256=" THEN Tail(signature) ELSE signature
         IN  sig = calculateSignature(payload, secret)

\* json.Marshal(models.WebhookPayload{...}); WebhookID is fmt.Sprintf("%d", id).
WebhookPayload(webhookID, eventType, data) ==
    [webhook_id |-> ToString(webhookID), event |-> eventType,
     timestamp |-> now, data |-> data]

\* trimSpace
RECURSIVE TrimLeft(_)
TrimLeft(s) ==
    IF s # <<>> /\ Head(s) \in Whitespace THEN TrimLeft(Tail(s)) ELSE s
RECURSIVE TrimRight(_)
TrimRight(s) ==
    IF s # <<>> /\ s[Len(s)] \in Whitespace
    THEN TrimRight(SubSeq(s, 1, Len(s) - 1)) ELSE s
trimSpace(s) == TrimRight(TrimLeft(s))

\* splitAndTrim: the parts between the commas, each trimmed; a string without
\* a comma is one part.
RECURSIVE Split(_, _)
Split(s, part) ==
    IF s = <<>> THEN <<part>>
    ELSE IF Head(s) = "," THEN <<part>> \o Split(Tail(s), <<>>)
    ELSE Split(Tail(s), Append(part, Head(s)))
splitAndTrim(s) ==
    [i \in 1..Len(Split(s, <<>>)) |-> trimSpace(Split(s, <<>>)[i])]

\* ParseEventTypes: the non-empty parts.
NonEmpty(part) == part # <<>>
ParseEventTypes(eventTypes) ==
    IF eventTypes = <<>> THEN <<>>
    ELSE SelectSeq(splitAndTrim(eventTypes), NonEmpty)

\* JoinEventTypes: the elements with "," between them.
RECURSIVE JoinSeq(_)
JoinSeq(list) ==
    IF list = <<>> THEN <<>>
    ELSE IF Len(list) = 1 THEN list[1]
    ELSE list[1] \o <<",">> \o JoinSeq(Tail(list))
JoinEventTypes(eventTypes) ==
    IF len(eventTypes) = 0 THEN <<>> ELSE JoinSeq(eventTypes.v)

\* strings.EqualFold
EqualFold(s, t) ==
    Len(s) = Len(t) /\ \A i \in 1..Len(s) : Lower(s[i]) = Lower(t[i])

\* contains comparing with == instead of strings.EqualFold.
containsCaseSensitive(slice, item) == \E i \in 1..Len(slice) : slice[i] = item

\* contains(slice, item)
contains(slice, item) == \E i \in 1..Len(slice) : EqualFold(slice[i], item)

\* NormalizePhoneNumber: the digits of the string.
IsDigit(token) == token \in Digits
NormalizePhoneNumber(phone) == SelectSeq(phone, IsDigit)

\* PhoneNumberMatches comparing the strings as they are written.
PhoneNumberMatchesExact(phone, phoneList) ==
    \E i \in 1..Len(phoneList) : phoneList[i] = phone

\* PhoneNumberMatches
PhoneNumberMatches(phone, phoneList) ==
    \E i \in 1..Len(phoneList) :
        NormalizePhoneNumber(phoneList[i]) = NormalizePhoneNumber(phone)

\* matchesFilters without the test for chat type individual.
matchesFiltersGroupTestOnly(webhook, data) ==
    LET chatOK ==
            IF webhook.filter_chat_type # "" /\ webhook.filter_chat_type # "all"
            THEN ~(webhook.filter_chat_type = "group" /\ ~data.is_group)
            ELSE TRUE
        phoneNumbers == ParseEventTypes(webhook.filter_phone_numbers)
        matchType == IF webhook.filter_phone_match_type = "" THEN "whitelist"
                     ELSE webhook.filter_phone_match_type
        phoneOK ==
            IF Len(phoneNumbers) > 0
            THEN LET matches == PhoneNumberMatches(data.from_phone, phoneNumbers)
                 IN  /\ ~(matchType = "whitelist" /\ ~matches)
                     /\ ~(matchType = "blacklist" /\ matches)
            ELSE TRUE
        groupJIDs == ParseEventTypes(webhook.filter_group_jids)
        groupNames == ParseEventTypes(webhook.filter_group_names)
        groupOK ==
            IF data.is_group
            THEN /\ Len(groupJIDs) > 0 =>
                       \E i \in 1..Len(groupJIDs) : EqualFold(groupJIDs[i], data.from)
                 /\ Len(groupNames) > 0 =>
                       \E i \in 1..Len(groupNames) :
                           EqualFold(groupNames[i], data.group_name)
            ELSE TRUE
    IN  chatOK /\ phoneOK /\ groupOK

\* matchesFilters(webhook, data), data a MessageReceivedData.
matchesFilters(webhook, data) ==
    LET chatOK ==
            IF webhook.filter_chat_type # "" /\ webhook.filter_chat_type # "all"
            THEN /\ ~(webhook.filter_chat_type = "individual" /\ data.is_group)
                 /\ ~(webhook.filter_chat_type = "group" /\ ~data.is_group)
            ELSE TRUE
        phoneNumbers == ParseEventTypes(webhook.filter_phone_numbers)
        matchType == IF webhook.filter_phone_match_type = "" THEN "whitelist"
                     ELSE webhook.filter_phone_match_type
        phoneOK ==
            IF Len(phoneNumbers) > 0
            THEN LET matches == PhoneNumberMatches(data.from_phone, phoneNumbers)
                 IN  /\ ~(matchType = "whitelist" /\ ~matches)
                     /\ ~(matchType = "blacklist" /\ matches)
            ELSE TRUE
        groupJIDs == ParseEventTypes(webhook.filter_group_jids)
        groupNames == ParseEventTypes(webhook.filter_group_names)
        groupOK ==
            IF data.is_group
            THEN /\ Len(groupJIDs) > 0 =>
                       \E i \in 1..Len(groupJIDs) : EqualFold(groupJIDs[i], data.from)
                 /\ Len(groupNames) > 0 =>
                       \E i \in 1..Len(groupNames) :
                           EqualFold(groupNames[i], data.group_name)
            ELSE TRUE
    IN  chatOK /\ phoneOK /\ groupOK

\* ----------------------------------------------------------- goroutine slots
FreeSlots(ts) == {k \in TaskIds : ts[k] = Idle}
Lowest(S) == CHOOSE k \in S : \A j \in S : k <= j

\* Start the goroutines of `new` (a sequence of goroutine states) in free slots.
RECURSIVE Spawn(_, _)
Spawn(ts, new) ==
    IF new = <<>> THEN ts
    ELSE Spawn([ts EXCEPT ![Lowest(FreeSlots(ts))] = Head(new)], Tail(new))

\* A set of naturals as an ascending sequence (the order rows come back in).
RECURSIVE Ascending(_)
Ascending(S) ==
    IF S = {} THEN <<>> ELSE <<Lowest(S)>> \o Ascending(S \ {Lowest(S)})

\* Goroutines that will INSERT a delivery row when they finish.
Creators(ts) == {k \in TaskIds : ts[k].kind \in {"deliver", "test"}}

\* n more delivery rows stay within max rows ever created.
Room(n, max) == (nextDeliveryID - 1) + Cardinality(Creators(tasks)) + n <= max

\* ------------------------------------------------------------------ Init
\* Everything but the clock and the function under call, after construction.
EmptyStore ==
    /\ ticked = TRUE
    /\ webhooks = <<>>
    /\ nextWebhookID = 1
    /\ deliveries = <<>>
    /\ nextDeliveryID = 1
    /\ tasks = [k \in TaskIds |-> Idle]
    /\ response = NoResponse
    /\ retrySends = <<>>
    /\ skipped = {}
    /\ service = Running
    /\ stream = NewEventStream

Init ==
    /\ now = 0
    /\ call = NoCall
    /\ EmptyStore

\* ------------------------------------------------- handlers: webhooks.go

\* The url rule of the request binding (go-playground/validator).
ValidURL(url) == url \in {"http://a", "http://b"}

NilBool == [nil |-> TRUE, v |-> FALSE]
Bool(b) == [nil |-> FALSE, v |-> b]

\* A WebhookCreateRequest with only the required fields.
MinimalCreateRequest ==
    [url |-> "http://a", secret |-> "", description |-> "",
     event_types |-> Slice(<<Str("connected")>>), is_active |-> TRUE,
     filter_phone_numbers |-> NilSlice, filter_phone_match_type |-> "",
     filter_chat_type |-> "", filter_group_jids |-> NilSlice,
     filter_group_names |-> NilSlice]

\* A WebhookUpdateRequest with no field supplied.
EmptyUpdateRequest ==
    [url |-> "", secret |-> "", description |-> "",
     event_types |-> NilSlice, is_active |-> NilBool,
     filter_phone_numbers |-> NilSlice, filter_phone_match_type |-> "",
     filter_chat_type |-> "", filter_group_jids |-> NilSlice,
     filter_group_names |-> NilSlice]

\* A handler's call and the response it writes: c.JSON(status, body).
NoBody == [empty |-> TRUE]
Respond(op, userID, webhookID, req, status, body) ==
    [op |-> op, user_id |-> userID, webhook_id |-> webhookID, req |-> req,
     status |-> status, body |-> body]

NotFound == [error |-> "Webhook not found"]

\* ToResponse that copies the secret as well.
ToResponseWithSecret(id, w) ==
    [id |-> id, url |-> w.url, secret |-> w.secret, description |-> w.description,
     is_active |-> w.is_active,
     event_types |-> ParseEventTypes(w.event_types),
     filter_phone_numbers |-> ParseEventTypes(w.filter_phone_numbers),
     filter_phone_match_type |-> w.filter_phone_match_type,
     filter_chat_type |-> w.filter_chat_type,
     filter_group_jids |-> ParseEventTypes(w.filter_group_jids),
     filter_group_names |-> ParseEventTypes(w.filter_group_names)]

\* Webhook.ToResponse: the row without its secret, the lists parsed.
ToResponse(id, w) ==
    [id |-> id, url |-> w.url, description |-> w.description,
     is_active |-> w.is_active,
     event_types |-> ParseEventTypes(w.event_types),
     filter_phone_numbers |-> ParseEventTypes(w.filter_phone_numbers),
     filter_phone_match_type |-> w.filter_phone_match_type,
     filter_chat_type |-> w.filter_chat_type,
     filter_group_jids |-> ParseEventTypes(w.filter_group_jids),
     filter_group_names |-> ParseEventTypes(w.filter_group_names)]

ValidMatchType(t) == t = "" \/ t = "whitelist" \/ t = "blacklist"
ValidChatType(t) == t = "" \/ t = "all" \/ t = "individual" \/ t = "group"

\* The row database.Create(&webhook) stores. IsActive carries the tag
\* gorm:"default:true" and the two filter modes carry defaults as well: GORM
\* writes the column default for a zero value, so a request with
\* is_active = false (or without is_active) is stored active all the same.
NewWebhook(userID, req) ==
    [user_id |-> userID,
     url |-> req.url,
     secret |-> req.secret,
     description |-> req.description,
     event_types |-> JoinEventTypes(req.event_types),
     is_active |-> IF req.is_active THEN req.is_active ELSE TRUE,
     filter_phone_numbers |-> JoinEventTypes(req.filter_phone_numbers),
     filter_phone_match_type |-> IF req.filter_phone_match_type = "" THEN "whitelist"
                                 ELSE req.filter_phone_match_type,
     filter_chat_type |-> IF req.filter_chat_type = "" THEN "all"
                          ELSE req.filter_chat_type,
     filter_group_jids |-> JoinEventTypes(req.filter_group_jids),
     filter_group_names |-> JoinEventTypes(req.filter_group_names)]

\* CreateWebhook
CreateWebhook(userID, req) ==
    LET reject(msg) ==
            /\ response' = Respond("create", userID, 0, req, 400, [error |-> msg])
            /\ UNCHANGED <<webhooks, nextWebhookID>>
    IN  /\ IF ~ValidURL(req.url) \/ req.event_types.nil
           THEN reject("Invalid request body")
           ELSE IF len(req.event_types) = 0
           THEN reject("At least one event type is required")
           ELSE IF ~ValidMatchType(req.filter_phone_match_type)
           THEN reject("filter_phone_match_type must be 'whitelist' or 'blacklist'")
           ELSE IF ~ValidChatType(req.filter_chat_type)
           THEN reject("filter_chat_type must be 'all', 'individual', or 'group'")
           ELSE /\ webhooks' = webhooks @@ (nextWebhookID :> NewWebhook(userID, req))
                /\ nextWebhookID' = nextWebhookID + 1
                /\ response' = Respond("create", userID, nextWebhookID, req, 201,
                                       ToResponse(nextWebhookID, NewWebhook(userID, req)))
        /\ UNCHANGED <<stream, call, service, now, ticked, deliveries, nextDeliveryID, tasks,
                       retrySends, skipped>>

\* The lookup without "AND user_id = ?".
OwnedByAnyone(userID, webhookID) == webhookID \in DOMAIN webhooks

\* The lookup every webhook-scoped handler starts with:
\* Where("id = ? AND user_id = ?", webhookID, userID).First(&webhook)
Owned(userID, webhookID) ==
    webhookID \in DOMAIN webhooks /\ webhooks[webhookID].user_id = userID

\* Handler ListWebhooks: the rows of the user, each through ToResponse.
ListWebhooks(userID) ==
    LET ids == Ascending({w \in DOMAIN webhooks : webhooks[w].user_id = userID})
    IN  /\ response' = Respond("list", userID, 0, NoBody, 200,
                           [webhooks |-> [i \in 1..Len(ids) |->
                                             ToResponse(ids[i], webhooks[ids[i]])]])
        /\ UNCHANGED <<stream, call, service, now, ticked, webhooks, nextWebhookID, deliveries,
                       nextDeliveryID, tasks, retrySends, skipped>>

\* GetWebhook
GetWebhook(userID, webhookID) ==
    /\ response' = IF Owned(userID, webhookID)
                   THEN Respond("get", userID, webhookID, NoBody, 200,
                                ToResponse(webhookID, webhooks[webhookID]))
                   ELSE Respond("get", userID, webhookID, NoBody, 404, NotFound)
    /\ UNCHANGED <<stream, call, service, now, ticked, webhooks, nextWebhookID, deliveries, nextDeliveryID,
                   tasks, retrySends, skipped>>

\* UpdateWebhook: "updates" is empty.
NoUpdates(req) ==
    /\ req.url = "" /\ req.secret = "" /\ req.description = ""
    /\ req.event_types.nil /\ req.is_active.nil
    /\ req.filter_phone_numbers.nil /\ req.filter_phone_match_type = ""
    /\ req.filter_chat_type = "" /\ req.filter_group_jids.nil
    /\ req.filter_group_names.nil

\* The update that passes over an empty list as it passes over a missing one.
ApplyUpdatesSkipsEmptyLists(row, req) ==
    [row EXCEPT
        !.url = IF req.url # "" THEN req.url ELSE @,
        !.secret = IF req.secret # "" THEN req.secret ELSE @,
        !.description = IF req.url # "" \/ req.description # "" THEN req.description
                        ELSE @,
        !.event_types = IF ~req.event_types.nil THEN JoinEventTypes(req.event_types)
                        ELSE @,
        !.is_active = IF ~req.is_active.nil THEN req.is_active.v ELSE @,
        !.filter_phone_numbers = IF len(req.filter_phone_numbers) > 0
                                 THEN JoinEventTypes(req.filter_phone_numbers) ELSE @,
        !.filter_phone_match_type = IF req.filter_phone_match_type # ""
                                    THEN req.filter_phone_match_type ELSE @,
        !.filter_chat_type = IF req.filter_chat_type # "" THEN req.filter_chat_type
                             ELSE @,
        !.filter_group_jids = IF len(req.filter_group_jids) > 0
                              THEN JoinEventTypes(req.filter_group_jids) ELSE @,
        !.filter_group_names = IF len(req.filter_group_names) > 0
                               THEN JoinEventTypes(req.filter_group_names) ELSE @]

\* The row after database.Model(&webhook).Updates(updates): one map entry per
\* field the handler takes as supplied; the description is written whenever
\* the URL is.
ApplyUpdates(row, req) ==
    [row EXCEPT
        !.url = IF req.url # "" THEN req.url ELSE @,
        !.secret = IF req.secret # "" THEN req.secret ELSE @,
        !.description = IF req.url # "" \/ req.description # "" THEN req.description
                        ELSE @,
        !.event_types = IF ~req.event_types.nil THEN JoinEventTypes(req.event_types)
                        ELSE @,
        !.is_active = IF ~req.is_active.nil THEN req.is_active.v ELSE @,
        !.filter_phone_numbers = IF ~req.filter_phone_numbers.nil
                                 THEN JoinEventTypes(req.filter_phone_numbers) ELSE @,
        !.filter_phone_match_type = IF req.filter_phone_match_type # ""
                                    THEN req.filter_phone_match_type ELSE @,
        !.filter_chat_type = IF req.filter_chat_type # "" THEN req.filter_chat_type
                             ELSE @,
        !.filter_group_jids = IF ~req.filter_group_jids.nil
                              THEN JoinEventTypes(req.filter_group_jids) ELSE @,
        !.filter_group_names = IF ~req.filter_group_names.nil
                               THEN JoinEventTypes(req.filter_group_names) ELSE @]

\* The handler that writes the fields before it validates the two filter modes.
UpdateWebhookWritesFirst(userID, webhookID, req) ==
    LET reject(status, body) ==
            /\ response' = Respond("update", userID, webhookID, req, status, body)
            /\ UNCHANGED webhooks
        written == [webhooks EXCEPT ![webhookID] = ApplyUpdates(webhooks[webhookID], req)]
    IN  /\ IF req.url # "" /\ ~ValidURL(req.url)
           THEN reject(400, [error |-> "Invalid request body"])
           ELSE IF ~Owned(userID, webhookID)
           THEN reject(404, NotFound)
           ELSE IF NoUpdates(req)
           THEN reject(400, [error |-> "No fields to update"])
           ELSE /\ webhooks' = written
                /\ response' =
                      IF ~ValidMatchType(req.filter_phone_match_type)
                         \/ ~ValidChatType(req.filter_chat_type)
                      THEN Respond("update", userID, webhookID, req, 400,
                                   [error |-> "invalid filter"])
                      ELSE Respond("update", userID, webhookID, req, 200,
                                   ToResponse(webhookID, written[webhookID]))
        /\ UNCHANGED <<stream, call, service, now, ticked, nextWebhookID, deliveries, nextDeliveryID, tasks,
                       retrySends, skipped>>

\* UpdateWebhook
UpdateWebhook(userID, webhookID, req) ==
    LET reject(status, body) ==
            /\ response' = Respond("update", userID, webhookID, req, status, body)
            /\ UNCHANGED webhooks
    IN  /\ IF req.url # "" /\ ~ValidURL(req.url)
           THEN reject(400, [error |-> "Invalid request body"])
           ELSE IF ~Owned(userID, webhookID)
           THEN reject(404, NotFound)
           ELSE IF ~ValidMatchType(req.filter_phone_match_type)
           THEN reject(400, [error |->
                    "filter_phone_match_type must be 'whitelist' or 'blacklist'"])
           ELSE IF ~ValidChatType(req.filter_chat_type)
           THEN reject(400, [error |->
                    "filter_chat_type must be 'all', 'individual', or 'group'"])
           ELSE IF NoUpdates(req)
           THEN reject(400, [error |-> "No fields to update"])
           ELSE /\ webhooks' = [webhooks EXCEPT
                                   ![webhookID] = ApplyUpdates(webhooks[webhookID], req)]
                /\ response' = Respond("update", userID, webhookID, req, 200,
                                   ToResponse(webhookID,
                                       ApplyUpdates(webhooks[webhookID], req)))
        /\ UNCHANGED <<stream, call, service, now, ticked, nextWebhookID, deliveries, nextDeliveryID, tasks,
                       retrySends, skipped>>

\* DeleteWebhook: the webhook's delivery rows, then the webhook row.
DeleteWebhook(userID, webhookID) ==
    /\ IF Owned(userID, webhookID)
       THEN /\ deliveries' = [r \in {x \in DOMAIN deliveries :
                                deliveries[x].webhook_id # webhookID} |-> deliveries[r]]
            /\ webhooks' = [w \in DOMAIN webhooks \ {webhookID} |-> webhooks[w]]
            /\ response' = Respond("delete", userID, webhookID, NoBody, 200,
                                   [message |-> "Webhook deleted successfully"])
       ELSE /\ response' = Respond("delete", userID, webhookID, NoBody, 404, NotFound)
            /\ UNCHANGED <<webhooks, deliveries>>
    /\ UNCHANGED <<stream, call, service, now, ticked, nextWebhookID, nextDeliveryID, tasks,
                   retrySends, skipped>>

\* ------------------------------------------- first delivery: TriggerWebhooks

\* The data argument of TriggerWebhooks: a models.MessageReceivedData, or a
\* value of another type.
OtherData == [kind |-> "other"]
MessageReceivedData(from, fromPhone, isGroup, groupName) ==
    [kind |-> "message", from |-> from, from_phone |-> fromPhone,
     is_group |-> isGroup, group_name |-> groupName]

\* A WhatsApp message as the client receives it: Info.Sender.User, the phone
\* number getSenderPhoneNumber finds for the sender, Info.IsGroup, Info.Chat
\* (the JID of the group for a group message) and the display name of the
\* group, which events.Message does not carry.
Message(sender, phone, isGroup, chat, subject) ==
    [sender |-> sender, phone |-> phone, is_group |-> isGroup, chat |-> chat,
     subject |-> subject]

\* extractMessageData: From is the sender's user id; GroupName is
\* msg.Info.Chat.String() for a group message and empty otherwise.
extractMessageData(msg) ==
    MessageReceivedData(msg.sender, msg.phone, msg.is_group,
                        IF msg.is_group THEN msg.chat ELSE <<>>)

\* The subscriber query without "is_active = ?".
SubscribersAnyState(userID, eventType, data) ==
    {w \in DOMAIN webhooks :
        /\ webhooks[w].user_id = userID
        /\ contains(ParseEventTypes(webhooks[w].event_types), eventType)
        /\ data.kind = "message" => matchesFilters(webhooks[w], data)}

\* The rows TriggerWebhooks delivers to: the user's active rows whose event
\* types contain the event and, for message data, whose filters match.
Subscribers(userID, eventType, data) ==
    {w \in DOMAIN webhooks :
        /\ webhooks[w].user_id = userID
        /\ webhooks[w].is_active = TRUE
        /\ contains(ParseEventTypes(webhooks[w].event_types), eventType)
        /\ data.kind = "message" => matchesFilters(webhooks[w], data)}

\* The fields of a webhook row that a goroutine holding a copy of it reads.
WebhookCopy(w) ==
    [id |-> w, is_active |-> webhooks[w].is_active, url |-> webhooks[w].url,
     secret |-> webhooks[w].secret]

\* The goroutine reading the loop's one shared webhook variable after the loop
\* has run on: every goroutine sees the last row of the query.
DeliverTaskSharedVariable(w, eventType, data) ==
    LET rows == {x \in DOMAIN webhooks :
                    webhooks[x].user_id = webhooks[w].user_id /\ webhooks[x].is_active}
        last == CHOOSE m \in rows : \A j \in rows : m >= j
    IN  [kind |-> "deliver", pc |-> "send", wh |-> WebhookCopy(last),
         event_type |-> eventType, data |-> data]

DeliverTask(w, eventType, data) ==
    [kind |-> "deliver", pc |-> "send", wh |-> WebhookCopy(w),
     event_type |-> eventType, data |-> data]

\* TriggerWebhooks: one "go s.deliverWebhook(&webhook, eventType, data)" per
\* subscribed active webhook, each iteration with its own webhook variable
\* (the README asks for Go 1.25+).
TriggerWebhooks(userID, eventType, data) ==
    LET ws  == Ascending(Subscribers(userID, eventType, data))
        new == [i \in 1..Len(ws) |-> DeliverTask(ws[i], eventType, data)]
    IN  /\ Cardinality(FreeSlots(tasks)) >= Len(ws)
        /\ tasks' = Spawn(tasks, new)
        /\ response' = NoResponse
        /\ UNCHANGED <<stream, call, service, now, ticked, webhooks, nextWebhookID, deliveries,
                       nextDeliveryID, retrySends, skipped>>

\* deliverWebhook called in the trigger's loop instead of in a goroutine of
\* its own: a send waits for the sends started before it.
DeliverSendInTurn(k, behaviour) ==
    /\ tasks[k].kind = "deliver" /\ tasks[k].pc = "send"
    /\ \A j \in TaskIds : j < k => ~(tasks[j].kind = "deliver" /\ tasks[j].pc = "send")
    /\ LET t == tasks[k]
           payload == WebhookPayload(t.wh.id, t.event_type, t.data)
       IN  tasks' = [tasks EXCEPT ![k] =
                        [kind |-> "deliver", pc |-> "persist", wh |-> t.wh,
                         event_type |-> t.event_type, payload |-> payload,
                         req |-> Request(t.wh.url, payload, Sign(payload, t.wh.secret)),
                         res |-> sendWebhook(behaviour)]]
    /\ response' = NoResponse
    /\ UNCHANGED <<stream, call, service, now, ticked, webhooks, nextWebhookID, deliveries,
                   nextDeliveryID, retrySends, skipped>>

\* deliverWebhook up to the return of sendWebhook.
DeliverSend(k, behaviour) ==
    /\ tasks[k].kind = "deliver" /\ tasks[k].pc = "send"
    /\ LET t == tasks[k]
           payload == WebhookPayload(t.wh.id, t.event_type, t.data)
       IN  tasks' = [tasks EXCEPT ![k] =
                        [kind |-> "deliver", pc |-> "persist", wh |-> t.wh,
                         event_type |-> t.event_type, payload |-> payload,
                         req |-> Request(t.wh.url, payload, Sign(payload, t.wh.secret)),
                         res |-> sendWebhook(behaviour)]]
    /\ response' = NoResponse
    /\ UNCHANGED <<stream, call, service, now, ticked, webhooks, nextWebhookID, deliveries, nextDeliveryID,
                   retrySends, skipped>>

\* The row deliverWebhook builds: RetryCount is the zero value, NextRetryAt is
\* set when the attempt failed.
NewDelivery(t) ==
    [webhook_id |-> t.wh.id,
     event_type |-> t.event_type,
     payload |-> t.payload,
     success |-> t.res.success,
     response_status |-> t.res.status,
     response_body |-> t.res.body,
     error_message |-> t.res.err,
     retry_count |-> 0,
     next_retry_at |-> IF ~t.res.success /\ 0 < MaxRetries
                       THEN calculateNextRetry(0) ELSE NULL]

\* deliverWebhook from the return of sendWebhook to db.Create.
DeliverPersist(k) ==
    /\ tasks[k].kind = "deliver" /\ tasks[k].pc = "persist"
    /\ deliveries' = deliveries @@ (nextDeliveryID :> NewDelivery(tasks[k]))
    /\ nextDeliveryID' = nextDeliveryID + 1
    /\ retrySends' = retrySends @@ (nextDeliveryID :> 0)
    /\ tasks' = [tasks EXCEPT ![k] = Idle]
    /\ response' = NoResponse
    /\ UNCHANGED <<stream, call, service, now, ticked, webhooks, nextWebhookID, skipped>>

\* ------------------------------------------------------ the retry scheduler

\* The scheduler's query without its bound on retry_count.
DueWhateverTheCount(d, at) ==
    /\ d.success = FALSE
    /\ (d.next_retry_at = NULL \/ d.next_retry_at <= at)

\* The WHERE clause of retryFailedDeliveries.
Due(d, at) ==
    /\ d.success = FALSE
    /\ d.retry_count < MaxRetries
    /\ (d.next_retry_at = NULL \/ d.next_retry_at <= at)

\* The fields of its copy of the row that retryDelivery reads.
RetryTask(r) ==
    [kind |-> "retry", pc |-> "fetch",
     d |-> [id |-> r, webhook_id |-> deliveries[r].webhook_id,
            payload |-> deliveries[r].payload,
            retry_count |-> deliveries[r].retry_count]]

\* One tick of processRetries: retryFailedDeliveries reads the due rows and
\* starts one goroutine per row, each with its own copy of the row.
retryFailedDeliveries ==
    LET rs  == Ascending({r \in DOMAIN deliveries : Due(deliveries[r], now)})
        new == [i \in 1..Len(rs) |-> RetryTask(rs[i])]
    IN  /\ ~ticked
        /\ Cardinality(FreeSlots(tasks)) >= Len(rs)
        /\ ticked' = TRUE
        /\ tasks' = Spawn(tasks, new)
        /\ response' = NoResponse
        /\ UNCHANGED <<stream, call, service, now, webhooks, nextWebhookID, deliveries, nextDeliveryID,
                       retrySends, skipped>>

\* retryDelivery, db.First(&webhook, delivery.WebhookID): the webhook is gone.
RetryFetchMissing(k) ==
    /\ tasks[k].kind = "retry" /\ tasks[k].pc = "fetch"
    /\ tasks[k].d.webhook_id \notin DOMAIN webhooks
    /\ tasks' = [tasks EXCEPT ![k] = Idle]
    /\ response' = NoResponse
    /\ UNCHANGED <<stream, call, service, now, ticked, webhooks, nextWebhookID, deliveries, nextDeliveryID,
                   retrySends, skipped>>

\* The skip that pushes the row's next-retry time on instead of leaving it.
RetryFetchInactiveReschedules(k) ==
    /\ tasks[k].kind = "retry" /\ tasks[k].pc = "fetch"
    /\ tasks[k].d.webhook_id \in DOMAIN webhooks
    /\ ~webhooks[tasks[k].d.webhook_id].is_active
    /\ tasks' = [tasks EXCEPT ![k] = Idle]
    /\ skipped' = skipped \cup {tasks[k].d.id}
    /\ deliveries' = [r \in DOMAIN deliveries |->
                        IF r = tasks[k].d.id
                        THEN [deliveries[r] EXCEPT !.next_retry_at =
                                  calculateNextRetry(tasks[k].d.retry_count)]
                        ELSE deliveries[r]]
    /\ response' = NoResponse
    /\ UNCHANGED <<stream, call, service, now, ticked, webhooks, nextWebhookID, nextDeliveryID, retrySends>>

\* retryDelivery, "if !webhook.IsActive { return }".
RetryFetchInactive(k) ==
    /\ tasks[k].kind = "retry" /\ tasks[k].pc = "fetch"
    /\ tasks[k].d.webhook_id \in DOMAIN webhooks
    /\ ~webhooks[tasks[k].d.webhook_id].is_active
    /\ tasks' = [tasks EXCEPT ![k] = Idle]
    /\ skipped' = skipped \cup {tasks[k].d.id}
    /\ response' = NoResponse
    /\ UNCHANGED <<stream, call, service, now, ticked, webhooks, nextWebhookID, deliveries, nextDeliveryID,
                   retrySends>>

\* retryDelivery, the webhook is there and active: on to the send.
RetryFetchActive(k) ==
    /\ tasks[k].kind = "retry" /\ tasks[k].pc = "fetch"
    /\ tasks[k].d.webhook_id \in DOMAIN webhooks
    /\ webhooks[tasks[k].d.webhook_id].is_active
    /\ tasks' = [tasks EXCEPT ![k] = [kind |-> "retry", pc |-> "send", d |-> tasks[k].d,
                     wh |-> WebhookCopy(tasks[k].d.webhook_id)]]
    /\ response' = NoResponse
    /\ UNCHANGED <<stream, call, service, now, ticked, webhooks, nextWebhookID, deliveries, nextDeliveryID,
                   retrySends, skipped>>

\* The request of a retry signed with nothing but the copy's payload at hand:
\* the signature of the first attempt cannot be rebuilt, so none is sent.
RetryRequestUnsigned(t) == Request(t.wh.url, t.d.payload, <<>>)

\* The request a retry sends: the payload of its copy of the row, signed with
\* the secret of the webhook row it has just fetched.
RetryRequest(t) == Request(t.wh.url, t.d.payload, Sign(t.d.payload, t.wh.secret))

\* retryDelivery up to the return of sendWebhook.
RetrySend(k, behaviour) ==
    /\ tasks[k].kind = "retry" /\ tasks[k].pc = "send"
    /\ tasks' = [tasks EXCEPT ![k] = [kind |-> "retry", pc |-> "persist",
                     d |-> tasks[k].d, wh |-> tasks[k].wh,
                     req |-> RetryRequest(tasks[k]),
                     res |-> sendWebhook(behaviour)]]
    /\ response' = NoResponse
    /\ UNCHANGED <<stream, call, service, now, ticked, webhooks, nextWebhookID, deliveries, nextDeliveryID,
                   retrySends, skipped>>

\* Updates without the "else" branch: next_retry_at is written only when a
\* further retry is scheduled.
RetryUpdatesKeepsNextRetry(row, t) ==
    [row EXCEPT
        !.success = t.res.success,
        !.response_status = t.res.status,
        !.response_body = t.res.body,
        !.retry_count = t.d.retry_count + 1,
        !.error_message = IF t.res.err # "" THEN t.res.err ELSE @,
        !.next_retry_at = IF ~t.res.success /\ t.d.retry_count + 1 < MaxRetries
                          THEN calculateNextRetry(t.d.retry_count + 1) ELSE @]

\* Updates with the next retry computed from the count before the increment.
RetryUpdatesOldCount(row, t) ==
    [row EXCEPT
        !.success = t.res.success,
        !.response_status = t.res.status,
        !.response_body = t.res.body,
        !.retry_count = t.d.retry_count + 1,
        !.error_message = IF t.res.err # "" THEN t.res.err ELSE @,
        !.next_retry_at = IF ~t.res.success /\ t.d.retry_count + 1 < MaxRetries
                          THEN calculateNextRetry(t.d.retry_count) ELSE NULL]

\* Updates that saves the whole struct, payload rebuilt for the attempt.
RetryUpdatesRebuildsPayload(row, t) ==
    [row EXCEPT
        !.payload = [@ EXCEPT !.timestamp = now],
        !.success = t.res.success,
        !.response_status = t.res.status,
        !.response_body = t.res.body,
        !.retry_count = t.d.retry_count + 1,
        !.error_message = IF t.res.err # "" THEN t.res.err ELSE @,
        !.next_retry_at = IF ~t.res.success /\ t.d.retry_count + 1 < MaxRetries
                          THEN calculateNextRetry(t.d.retry_count + 1) ELSE NULL]

\* The row after retryDelivery's Updates(updates): error_message is in the map
\* only when sendWebhook returned an error; retry_count is the copy's count
\* plus one.
RetryUpdates(row, t) ==
    [row EXCEPT
        !.success = t.res.success,
        !.response_status = t.res.status,
        !.response_body = t.res.body,
        !.retry_count = t.d.retry_count + 1,
        !.error_message = IF t.res.err # "" THEN t.res.err ELSE @,
        !.next_retry_at = IF ~t.res.success /\ t.d.retry_count + 1 < MaxRetries
                          THEN calculateNextRetry(t.d.retry_count + 1) ELSE NULL]

\* retryDelivery from the return of sendWebhook to Updates: UPDATE ... WHERE
\* id = delivery.ID, which changes nothing when the row is gone.
RetryPersist(k) ==
    /\ tasks[k].kind = "retry" /\ tasks[k].pc = "persist"
    /\ deliveries' = [r \in DOMAIN deliveries |->
                        IF r = tasks[k].d.id THEN RetryUpdates(deliveries[r], tasks[k])
                        ELSE deliveries[r]]
    /\ retrySends' = [retrySends EXCEPT ![tasks[k].d.id] = @ + 1]
    /\ tasks' = [tasks EXCEPT ![k] = Idle]
    /\ response' = NoResponse
    /\ UNCHANGED <<stream, call, service, now, ticked, webhooks, nextWebhookID, nextDeliveryID, skipped>>

\* ------------------------------------------------- processRetries and Stop

\* The retry loop and Stop, statement by statement. retryFailedDeliveries
\* above is the tick that nothing interleaves with: LoopTick, one LoopLaunch
\* per due row, LoopScanned.

\* The retry goroutines that have not returned: the counter of s.wg.
InFlight == {k \in TaskIds : tasks[k].kind = "retry"}

\* processRetries takes "case <-ticker.C" and retryFailedDeliveries runs its
\* query. The select chooses among the cases that are ready, so a tick that is
\* waiting can be taken whether stopChan is closed or not.
LoopTick ==
    LET rs == Ascending({r \in DOMAIN deliveries : Due(deliveries[r], now)})
    IN  /\ service.loop = "select"
        /\ ~ticked
        /\ ticked' = TRUE
        /\ service' = [service EXCEPT !.loop = "scan",
                                      !.due = [i \in 1..Len(rs) |-> RetryTask(rs[i])]]
        /\ response' = NoResponse
        /\ UNCHANGED <<stream, call, now, webhooks, nextWebhookID, deliveries, nextDeliveryID, tasks,
                       retrySends, skipped>>

\* retryFailedDeliveries, one turn of "for _, delivery := range deliveries":
\* s.wg.Add(1) and the go statement.
LoopLaunch ==
    /\ service.loop = "scan"
    /\ service.due # <<>>
    /\ FreeSlots(tasks) # {}
    /\ tasks' = Spawn(tasks, <<Head(service.due)>>)
    /\ service' = [service EXCEPT !.due = Tail(service.due)]
    /\ response' = NoResponse
    /\ UNCHANGED <<stream, call, now, ticked, webhooks, nextWebhookID, deliveries, nextDeliveryID,
                   retrySends, skipped>>

\* retryFailedDeliveries returns and processRetries is back in its select.
LoopScanned ==
    /\ service.loop = "scan"
    /\ service.due = <<>>
    /\ service' = [service EXCEPT !.loop = "select"]
    /\ response' = NoResponse
    /\ UNCHANGED <<stream, call, now, ticked, webhooks, nextWebhookID, deliveries, nextDeliveryID,
                   tasks, retrySends, skipped>>

\* processRetries takes "case <-s.stopChan: return".
LoopReturn ==
    /\ service.loop = "select"
    /\ service.stopChan = "closed"
    /\ service' = [service EXCEPT !.loop = "returned"]
    /\ response' = NoResponse
    /\ UNCHANGED <<stream, call, now, ticked, webhooks, nextWebhookID, deliveries, nextDeliveryID,
                   tasks, retrySends, skipped>>

\* Stop, "close(s.stopChan)".
StopClose ==
    /\ service.stop = "none"
    /\ service' = [service EXCEPT !.stopChan = "closed", !.stop = "waiting"]
    /\ response' = NoResponse
    /\ UNCHANGED <<stream, call, now, ticked, webhooks, nextWebhookID, deliveries, nextDeliveryID,
                   tasks, retrySends, skipped>>

\* Stop, "s.wg.Wait()" returns: the counter is zero.
StopReturn ==
    /\ service.stop = "waiting"
    /\ InFlight = {}
    /\ service' = [service EXCEPT !.stop = "returned"]
    /\ response' = NoResponse
    /\ UNCHANGED <<stream, call, now, ticked, webhooks, nextWebhookID, deliveries, nextDeliveryID,
                   tasks, retrySends, skipped>>

\* ------------------------------------------------------------ test delivery

TestEvent == Str("test")
TestData == [test |-> TRUE, message |-> "This is a test webhook from PingLater"]

\* Handler TestWebhook: the ownership lookup, then the service's TestWebhook
\* runs in the request's goroutine.
TestWebhookStart(userID, webhookID) ==
    /\ IF Owned(userID, webhookID)
       THEN /\ Cardinality(FreeSlots(tasks)) >= 1
            /\ tasks' = Spawn(tasks, <<[kind |-> "test", pc |-> "send",
                                        user_id |-> userID,
                                        wh |-> WebhookCopy(webhookID)]>>)
            /\ response' = NoResponse
       ELSE /\ response' = Respond("test", userID, webhookID, NoBody, 404, NotFound)
            /\ UNCHANGED tasks
    /\ UNCHANGED <<stream, call, service, now, ticked, webhooks, nextWebhookID, deliveries, nextDeliveryID,
                   retrySends, skipped>>

\* Service TestWebhook up to the return of sendWebhook.
TestWebhookSend(k, behaviour) ==
    /\ tasks[k].kind = "test" /\ tasks[k].pc = "send"
    /\ LET t == tasks[k]
           payload == WebhookPayload(t.wh.id, TestEvent, TestData)
       IN  tasks' = [tasks EXCEPT ![k] =
                        [kind |-> "test", pc |-> "persist", user_id |-> t.user_id,
                         wh |-> t.wh, payload |-> payload,
                         req |-> Request(t.wh.url, payload, Sign(payload, t.wh.secret)),
                         res |-> sendWebhook(behaviour)]]
    /\ response' = NoResponse
    /\ UNCHANGED <<stream, call, service, now, ticked, webhooks, nextWebhookID, deliveries, nextDeliveryID,
                   retrySends, skipped>>

\* The row the service's TestWebhook returns: RetryCount and NextRetryAt are
\* left at their zero values.
TestDelivery(t) ==
    [webhook_id |-> t.wh.id,
     event_type |-> TestEvent,
     payload |-> t.payload,
     success |-> t.res.success,
     response_status |-> t.res.status,
     response_body |-> t.res.body,
     error_message |-> t.res.err,
     retry_count |-> 0,
     next_retry_at |-> NULL]

\* WebhookDeliveryResponse as the handlers fill it.
DeliveryResponse(id, d) ==
    [id |-> id, event_type |-> d.event_type, success |-> d.success,
     response_status |-> d.response_status, error_message |-> d.error_message,
     retry_count |-> d.retry_count]

\* Handler TestWebhook, database.Create(delivery) and the response.
TestWebhookPersist(k) ==
    /\ tasks[k].kind = "test" /\ tasks[k].pc = "persist"
    /\ deliveries' = deliveries @@ (nextDeliveryID :> TestDelivery(tasks[k]))
    /\ nextDeliveryID' = nextDeliveryID + 1
    /\ retrySends' = retrySends @@ (nextDeliveryID :> 0)
    /\ tasks' = [tasks EXCEPT ![k] = Idle]
    /\ response' = Respond("test", tasks[k].user_id, tasks[k].wh.id, NoBody, 200,
                       [message |-> "Test webhook sent",
                        delivery |-> DeliveryResponse(nextDeliveryID,
                                                      TestDelivery(tasks[k]))])
    /\ UNCHANGED <<stream, call, service, now, ticked, webhooks, nextWebhookID, skipped>>

\* ------------------------------------------------------------ read handlers

\* A query parameter after strconv.Atoi: ok is false when the parameter is
\* absent or not a number.
NoQuery == [ok |-> FALSE, n |-> 0]
Query(n) == [ok |-> TRUE, n |-> n]

\* A set of ids as a descending sequence (newest row first).
RECURSIVE Descending(_)
Descending(S) ==
    IF S = {} THEN <<>>
    ELSE LET m == CHOOSE k \in S : \A j \in S : k >= j
         IN  <<m>> \o Descending(S \ {m})

\* Limit(limit).Offset(offset) over a sequence of rows.
Page(rows, limit, offset) ==
    [i \in 1..(IF Len(rows) - offset < 0 THEN 0
               ELSE IF Len(rows) - offset < limit THEN Len(rows) - offset
               ELSE limit) |-> rows[offset + i]]

\* ListWebhookDeliveries without the upper bound on the limit.
ListWebhookDeliveriesUnbounded(userID, webhookID, l, o) ==
    LET limit == IF l.ok /\ l.n > 0 THEN l.n ELSE 50
        offset == IF o.ok /\ o.n >= 0 THEN o.n ELSE 0
        ids == Descending({r \in DOMAIN deliveries :
                              deliveries[r].webhook_id = webhookID})
        page == Page(ids, limit, offset)
    IN  /\ response' =
              IF Owned(userID, webhookID)
              THEN Respond("deliveries", userID, webhookID, [limit |-> l, offset |-> o],
                       200,
                       [deliveries |-> [i \in 1..Len(page) |->
                                           DeliveryResponse(page[i], deliveries[page[i]])],
                        total |-> Len(ids), limit |-> limit, offset |-> offset])
              ELSE Respond("deliveries", userID, webhookID, [limit |-> l, offset |-> o],
                       404, NotFound)
        /\ UNCHANGED <<stream, call, service, now, ticked, webhooks, nextWebhookID, deliveries,
                       nextDeliveryID, tasks, retrySends, skipped>>

\* Handler ListWebhookDeliveries; the request is the pair of query parameters.
ListWebhookDeliveries(userID, webhookID, l, o) ==
    LET limit == IF l.ok /\ l.n > 0 /\ l.n <= 100 THEN l.n ELSE 50
        offset == IF o.ok /\ o.n >= 0 THEN o.n ELSE 0
        ids == Descending({r \in DOMAIN deliveries :
                              deliveries[r].webhook_id = webhookID})
        page == Page(ids, limit, offset)
    IN  /\ response' =
              IF Owned(userID, webhookID)
              THEN Respond("deliveries", userID, webhookID, [limit |-> l, offset |-> o],
                       200,
                       [deliveries |-> [i \in 1..Len(page) |->
                                           DeliveryResponse(page[i], deliveries[page[i]])],
                        total |-> Len(ids), limit |-> limit, offset |-> offset])
              ELSE Respond("deliveries", userID, webhookID, [limit |-> l, offset |-> o],
                       404, NotFound)
        /\ UNCHANGED <<stream, call, service, now, ticked, webhooks, nextWebhookID, deliveries,
                       nextDeliveryID, tasks, retrySends, skipped>>

\* GetWebhookStats with the success rate cut after two decimals.
WebhookStatsTruncates(webhookID) ==
    LET rows == {r \in DOMAIN deliveries : deliveries[r].webhook_id = webhookID}
        totalCount == Cardinality(rows)
        successCount == Cardinality({r \in rows : deliveries[r].success})
        failedCount == Cardinality({r \in rows : ~deliveries[r].success})
    IN  [total_deliveries |-> totalCount,
         successful |-> successCount,
         failed |-> failedCount,
         success_rate |-> IF totalCount > 0
                          THEN (successCount * 10000) \div totalCount
                          ELSE 0,
         last_delivery_status |->
             IF rows = {} THEN FALSE
             ELSE deliveries[CHOOSE m \in rows : \A j \in rows : m >= j].success]

\* The service's GetWebhookStats: the three counts and the success rate in
\* hundredths of a percent (10000 is "100.00%"), rounded to the nearest
\* hundredth as FormatFloat(successRate, 'f', 2, 64) does.
WebhookStats(webhookID) ==
    LET rows == {r \in DOMAIN deliveries : deliveries[r].webhook_id = webhookID}
        totalCount == Cardinality(rows)
        successCount == Cardinality({r \in rows : deliveries[r].success})
        failedCount == Cardinality({r \in rows : ~deliveries[r].success})
    IN  [total_deliveries |-> totalCount,
         successful |-> successCount,
         failed |-> failedCount,
         success_rate |-> IF totalCount > 0
                          THEN (2 * successCount * 10000 + totalCount)
                                   \div (2 * totalCount)
                          ELSE 0,
         last_delivery_status |->
             IF rows = {} THEN FALSE
             ELSE deliveries[CHOOSE m \in rows : \A j \in rows : m >= j].success]

\* Handler GetWebhookStats
GetWebhookStats(userID, webhookID) ==
    /\ response' =
          IF Owned(userID, webhookID)
          THEN Respond("stats", userID, webhookID, NoBody, 200,
                       [webhook_id |-> webhookID, stats |-> WebhookStats(webhookID)])
          ELSE Respond("stats", userID, webhookID, NoBody, 404, NotFound)
    /\ UNCHANGED <<stream, call, service, now, ticked, webhooks, nextWebhookID, deliveries, nextDeliveryID,
                   tasks, retrySends, skipped>>

\* GetWebhookStats query by query: the handler's ownership lookup, then the
\* service's three Count queries, each a statement of its own on the shared
\* connection, then the query for the last delivery and the answer. Other
\* goroutines may write between any two of them.
StatsStart(userID, webhookID) ==
    /\ IF Owned(userID, webhookID)
       THEN /\ Cardinality(FreeSlots(tasks)) >= 1
            /\ tasks' = Spawn(tasks, <<[kind |-> "stats", pc |-> "total",
                                        user_id |-> userID, webhook_id |-> webhookID]>>)
            /\ response' = NoResponse
       ELSE /\ response' = Respond("stats", userID, webhookID, NoBody, 404, NotFound)
            /\ UNCHANGED tasks
    /\ UNCHANGED <<stream, call, service, now, ticked, webhooks, nextWebhookID, deliveries,
                   nextDeliveryID, retrySends, skipped>>

\* The rows of a webhook as one Count query sees them.
RowsSeen(webhookID) == {r \in DOMAIN deliveries : deliveries[r].webhook_id = webhookID}

\* Count(&totalCount)
StatsCountTotal(k) ==
    /\ tasks[k].kind = "stats" /\ tasks[k].pc = "total"
    /\ tasks' = [tasks EXCEPT ![k] =
                    [kind |-> "stats", pc |-> "success", user_id |-> tasks[k].user_id,
                     webhook_id |-> tasks[k].webhook_id,
                     totalCount |-> Cardinality(RowsSeen(tasks[k].webhook_id))]]
    /\ response' = NoResponse
    /\ UNCHANGED <<stream, call, service, now, ticked, webhooks, nextWebhookID, deliveries,
                   nextDeliveryID, retrySends, skipped>>

\* Count(&successCount)
StatsCountSuccess(k) ==
    /\ tasks[k].kind = "stats" /\ tasks[k].pc = "success"
    /\ tasks' = [tasks EXCEPT ![k] =
                    [kind |-> "stats", pc |-> "failed", user_id |-> tasks[k].user_id,
                     webhook_id |-> tasks[k].webhook_id,
                     totalCount |-> tasks[k].totalCount,
                     successCount |->
                         Cardinality({r \in RowsSeen(tasks[k].webhook_id) :
                                         deliveries[r].success})]]
    /\ response' = NoResponse
    /\ UNCHANGED <<stream, call, service, now, ticked, webhooks, nextWebhookID, deliveries,
                   nextDeliveryID, retrySends, skipped>>

\* Count(&failedCount)
StatsCountFailed(k) ==
    /\ tasks[k].kind = "stats" /\ tasks[k].pc = "failed"
    /\ tasks' = [tasks EXCEPT ![k] =
                    [kind |-> "stats", pc |-> "last", user_id |-> tasks[k].user_id,
                     webhook_id |-> tasks[k].webhook_id,
                     totalCount |-> tasks[k].totalCount,
                     successCount |-> tasks[k].successCount,
                     failedCount |->
                         Cardinality({r \in RowsSeen(tasks[k].webhook_id) :
                                         ~deliveries[r].success})]]
    /\ response' = NoResponse
    /\ UNCHANGED <<stream, call, service, now, ticked, webhooks, nextWebhookID, deliveries,
                   nextDeliveryID, retrySends, skipped>>

\* The query for the last delivery, the success rate and the answer.
StatsRespond(k) ==
    /\ tasks[k].kind = "stats" /\ tasks[k].pc = "last"
    /\ LET t    == tasks[k]
           rows == RowsSeen(t.webhook_id)
       IN  response' =
               Respond("stats", t.user_id, t.webhook_id, NoBody, 200,
                   [webhook_id |-> t.webhook_id,
                    stats |->
                       [total_deliveries |-> t.totalCount,
                        successful |-> t.successCount,
                        failed |-> t.failedCount,
                        success_rate |->
                            IF t.totalCount > 0
                            THEN (2 * t.successCount * 10000 + t.totalCount)
                                     \div (2 * t.totalCount)
                            ELSE 0,
                        last_delivery_status |->
                            IF rows = {} THEN FALSE
                            ELSE deliveries[CHOOSE m \in rows :
                                               \A j \in rows : m >= j].success]])
    /\ tasks' = [tasks EXCEPT ![k] = Idle]
    /\ UNCHANGED <<stream, call, service, now, ticked, webhooks, nextWebhookID, deliveries,
                   nextDeliveryID, retrySends, skipped>>

\* ------------------------------------------------------ EventStream: event.go

\* Everything but the EventStream.
NotStream ==
    <<now, ticked, webhooks, nextWebhookID, deliveries, nextDeliveryID, tasks, response,
      retrySends, skipped, service, call>>

\* A goroutine calls Subscribe.
SubscribeCall(p) ==
    /\ stream.callers[p] = Outside
    /\ stream' = [stream EXCEPT !.callers[p] = [op |-> "Subscribe", pc |-> "Lock"]]
    /\ UNCHANGED NotStream

\* es.Mutex.Lock(): waits until no goroutine holds the mutex.
SubscribeLock(p) ==
    /\ stream.callers[p] = [op |-> "Subscribe", pc |-> "Lock"]
    /\ stream.Mutex = [w |-> 0, r |-> {}]
    /\ stream' = [stream EXCEPT !.Mutex.w = p, !.callers[p].pc = "locked"]
    /\ UNCHANGED NotStream

\* ch := make(chan Event, 10); es.Clients[ch] = true; return ch, and the
\* deferred Unlock.
SubscribeReturn(p) ==
    /\ stream.callers[p] = [op |-> "Subscribe", pc |-> "locked"]
    /\ stream' = [stream EXCEPT
                     !.chans = Append(@, [buf |-> <<>>, closed |-> FALSE]),
                     !.Clients = @ \cup {Len(stream.chans) + 1},
                     !.Mutex.w = 0,
                     !.callers[p] = Outside]
    /\ UNCHANGED NotStream

\* The channels some goroutine is unsubscribing.
Leaving == {stream.callers[p].ch : p \in {q \in Callers : stream.callers[q].op = "Unsubscribe"}}

\* The handler that subscribed ch returns: its deferred Unsubscribe(ch) runs,
\* once for each channel.
UnsubscribeCall(p, ch) ==
    /\ stream.callers[p] = Outside
    /\ ch \in stream.Clients \ Leaving
    /\ stream' = [stream EXCEPT
                     !.callers[p] = [op |-> "Unsubscribe", pc |-> "Lock", ch |-> ch]]
    /\ UNCHANGED NotStream

\* es.Mutex.Lock()
UnsubscribeLock(p) ==
    /\ stream.callers[p].op = "Unsubscribe" /\ stream.callers[p].pc = "Lock"
    /\ stream.Mutex = [w |-> 0, r |-> {}]
    /\ stream' = [stream EXCEPT !.Mutex.w = p, !.callers[p].pc = "locked"]
    /\ UNCHANGED NotStream

\* delete(es.Clients, ch); close(ch), and the deferred Unlock.
UnsubscribeReturn(p) ==
    /\ stream.callers[p].op = "Unsubscribe" /\ stream.callers[p].pc = "locked"
    /\ stream' = [stream EXCEPT
                     !.Clients = @ \ {stream.callers[p].ch},
                     !.chans[stream.callers[p].ch].closed = TRUE,
                     !.Mutex.w = 0,
                     !.callers[p] = Outside]
    /\ UNCHANGED NotStream

\* A goroutine calls Broadcast with an event.
BroadcastCall(p, event) ==
    /\ stream.callers[p] = Outside
    /\ stream' = [stream EXCEPT
                     !.callers[p] = [op |-> "Broadcast", pc |-> "RLock", event |-> event]]
    /\ UNCHANGED NotStream

\* Broadcast that ranges over the clients without taking the mutex.
BroadcastWithoutRLock(p) ==
    /\ stream.callers[p].op = "Broadcast" /\ stream.callers[p].pc = "RLock"
    /\ stream' = [stream EXCEPT
                     !.callers[p] = [op |-> "Broadcast", pc |-> "range",
                                     event |-> stream.callers[p].event,
                                     todo |-> stream.Clients, full |-> {}]]
    /\ UNCHANGED NotStream

\* es.Mutex.RLock(): waits while a goroutine holds the mutex for writing; then
\* "for ch := range es.Clients" has the clients of this moment before it.
BroadcastRLock(p) ==
    /\ stream.callers[p].op = "Broadcast" /\ stream.callers[p].pc = "RLock"
    /\ stream.Mutex.w = 0
    /\ stream' = [stream EXCEPT
                     !.Mutex.r = @ \cup {p},
                     !.callers[p] = [op |-> "Broadcast", pc |-> "range",
                                     event |-> stream.callers[p].event,
                                     todo |-> stream.Clients, full |-> {}]]
    /\ UNCHANGED NotStream

\* One iteration of the loop, in the order the map gives: "select { case ch <-
\* event: default: }". A send on a closed channel panics; with room in the
\* buffer the event is queued; with a full buffer the default case is taken.
BroadcastSelect(p, ch) ==
    /\ stream.callers[p].op = "Broadcast" /\ stream.callers[p].pc = "range"
    /\ ch \in stream.callers[p].todo
    /\ stream' =
          IF stream.chans[ch].closed
          THEN [stream EXCEPT !.panicked = TRUE, !.callers[p].todo = @ \ {ch}]
          ELSE IF Len(stream.chans[ch].buf) < ChanBuffer
          THEN [stream EXCEPT !.chans[ch].buf = Append(@, stream.callers[p].event),
                              !.callers[p].todo = @ \ {ch}]
          ELSE [stream EXCEPT !.callers[p].todo = @ \ {ch},
                              !.callers[p].full = @ \cup {ch}]
    /\ UNCHANGED NotStream

\* The loop is over: the deferred RUnlock, and Broadcast returns.
BroadcastReturn(p) ==
    /\ stream.callers[p].op = "Broadcast" /\ stream.callers[p].pc = "range"
    /\ stream.callers[p].todo = {}
    /\ stream' = [stream EXCEPT !.Mutex.r = @ \ {p}, !.callers[p] = Outside]
    /\ UNCHANGED NotStream

\* The handler that subscribed ch takes the oldest event from it ("case event,
\* ok := <-eventChan" in GetEvents), as long as it has not returned.
Receive(ch) ==
    /\ ch \in stream.Clients \ Leaving
    /\ stream.chans[ch].buf # <<>>
    /\ stream' = [stream EXCEPT !.chans[ch].buf = Tail(@)]
    /\ UNCHANGED NotStream

\* ------------------------------------------------------------------- time

\* The instants at which the clock is observed: the retry milestones of a
\* delivery first attempted at minute 0 (0, 1, 6, 21, 51, 111) and the
\* TimeSlack minutes after the last.
RECURSIVE BackoffSum(_)
BackoffSum(n) == IF n = 0 THEN 0 ELSE BackoffSum(n - 1) + intervals[n]
Instants ==
    {BackoffSum(n) : n \in 0..Len(intervals)}
        \cup {BackoffSum(Len(intervals)) + j : j \in 1..TimeSlack}

AdvanceClock ==
    /\ \E t \in Instants :
          /\ t > now
          /\ \A u \in Instants : u > now => t <= u
          /\ t >= now + TickMinutes
          /\ now' = t
    /\ ticked' = FALSE
    /\ response' = NoResponse
    /\ UNCHANGED <<stream, call, service, webhooks, nextWebhookID, deliveries, nextDeliveryID,
                   tasks, retrySends, skipped>>

\* ------------------------------------------------------------------- Next

\* The requests of the retry life cycle: one webhook of one user, created
\* with or without is_active, switched on and off.
Next ==
    \/ /\ nextWebhookID <= MaxWebhooks
       /\ \E u \in Users, a \in BOOLEAN :
             CreateWebhook(u, [MinimalCreateRequest EXCEPT !.is_active = a])
    \/ \E u \in Users, w \in WebhookIds, a \in BOOLEAN :
          UpdateWebhook(u, w, [EmptyUpdateRequest EXCEPT !.is_active = Bool(a)])
    \/ \E u \in Users, w \in WebhookIds : DeleteWebhook(u, w)
    \/ \E u \in Users, e \in EventTypes :
          /\ Subscribers(u, e, OtherData) # {}
          /\ Room(Cardinality(Subscribers(u, e, OtherData)), MaxDeliveries)
          /\ TriggerWebhooks(u, e, OtherData)
    \/ \E k \in TaskIds, b \in EndpointBehaviours : DeliverSend(k, b)
    \/ \E k \in TaskIds : DeliverPersist(k)
    \/ retryFailedDeliveries
    \/ \E k \in TaskIds : RetryFetchMissing(k)
    \/ \E k \in TaskIds : RetryFetchInactive(k)
    \/ \E k \in TaskIds : RetryFetchActive(k)
    \/ \E k \in TaskIds, b \in EndpointBehaviours : RetrySend(k, b)
    \/ \E k \in TaskIds : RetryPersist(k)
    \/ \E u \in Users, w \in WebhookIds :
          Owned(u, w) /\ Room(1, MaxDeliveries) /\ TestWebhookStart(u, w)
    \/ \E k \in TaskIds, b \in EndpointBehaviours : TestWebhookSend(k, b)
    \/ \E k \in TaskIds : TestWebhookPersist(k)
    \/ AdvanceClock

Spec == Init /\ [][Next]_vars

\* Secret rotation: one webhook created with or without a secret, one failing
\* delivery, the secret changed once the first attempt has been sent, and the
\* retries up to minute RotationHorizon.
CreateSecrets == {"", "s1"}
RotatedSecrets == {"s1", "s2"}
FirstAttemptSent ==
    \/ deliveries # <<>>
    \/ \E k \in TaskIds : tasks[k].kind = "deliver" /\ tasks[k].pc = "persist"

NextRotation ==
    \/ /\ nextWebhookID <= MaxWebhooks
       /\ \E u \in Users, s \in CreateSecrets :
             CreateWebhook(u, [MinimalCreateRequest EXCEPT !.secret = s])
    \/ /\ FirstAttemptSent
       /\ \E u \in Users, w \in WebhookIds, s \in RotatedSecrets :
             UpdateWebhook(u, w, [EmptyUpdateRequest EXCEPT !.secret = s])
    \/ \E u \in Users, e \in EventTypes :
          /\ Subscribers(u, e, OtherData) # {}
          /\ Room(Cardinality(Subscribers(u, e, OtherData)), MaxDeliveries)
          /\ TriggerWebhooks(u, e, OtherData)
    \/ \E k \in TaskIds, b \in EndpointBehaviours : DeliverSend(k, b)
    \/ \E k \in TaskIds : DeliverPersist(k)
    \/ retryFailedDeliveries
    \/ \E k \in TaskIds : RetryFetchActive(k)
    \/ \E k \in TaskIds, b \in EndpointBehaviours : RetrySend(k, b)
    \/ \E k \in TaskIds : RetryPersist(k)
    \/ now < RotationHorizon /\ AdvanceClock

SpecRotation == Init /\ [][NextRotation]_vars

\* Fan-out: two users, webhooks with different URLs, secrets, event types and
\* filters, switched on and off; triggers with and without message data; no
\* clock, so no retries.
FanoutUsers == {1, 2}
FanoutWebhookIds == 1..FanoutWebhooks
FanoutCreateRequests ==
    {[MinimalCreateRequest EXCEPT !.secret = "s1"],
     [MinimalCreateRequest EXCEPT
         !.url = "http://b",
         !.event_types = Slice(<<Str("CONNECTED"), Str("message_received")>>),
         !.filter_chat_type = "group"]}
\* The triggers: "connected" carries no message data; TriggerMessageReceived
\* carries a group message or an individual one.
FanoutTriggers ==
    {[event |-> Str("connected"), data |-> OtherData],
     [event |-> Str("message_received"),
      data |-> MessageReceivedData(Str("g1"), <<"1">>, TRUE, Str("family"))],
     [event |-> Str("message_received"),
      data |-> MessageReceivedData(Str("alice"), <<"1">>, FALSE, <<>>)]}
FanoutBehaviours == {TransportError, 200}

NextFanout ==
    \/ /\ nextWebhookID <= FanoutWebhooks
       /\ \E u \in FanoutUsers, req \in FanoutCreateRequests : CreateWebhook(u, req)
    \/ \E u \in FanoutUsers, w \in FanoutWebhookIds, a \in BOOLEAN :
          /\ Owned(u, w)
          /\ UpdateWebhook(u, w, [EmptyUpdateRequest EXCEPT !.is_active = Bool(a)])
    \/ \E u \in FanoutUsers, t \in FanoutTriggers :
          /\ Room(Cardinality(Subscribers(u, t.event, t.data)), FanoutDeliveries)
          /\ TriggerWebhooks(u, t.event, t.data)
    \/ \E k \in TaskIds, b \in FanoutBehaviours : DeliverSend(k, b)
    \/ \E k \in TaskIds : DeliverPersist(k)

SpecFanout == Init /\ [][NextFanout]_vars

\* Single attempts, first and test, against an endpoint that answers with a
\* status on either side of the edges of the 2xx range, or not at all.
SendBehaviours == {TransportError, 199, 200, 299, 300}

NextSend ==
    \/ /\ nextWebhookID <= MaxWebhooks
       /\ \E u \in Users : CreateWebhook(u, MinimalCreateRequest)
    \/ \E u \in Users, e \in EventTypes :
          /\ Subscribers(u, e, OtherData) # {}
          /\ Room(1, FanoutDeliveries)
          /\ TriggerWebhooks(u, e, OtherData)
    \/ \E k \in TaskIds, b \in SendBehaviours : DeliverSend(k, b)
    \/ \E k \in TaskIds : DeliverPersist(k)
    \/ \E u \in Users, w \in WebhookIds :
          Owned(u, w) /\ Room(1, FanoutDeliveries) /\ TestWebhookStart(u, w)
    \/ \E k \in TaskIds, b \in SendBehaviours : TestWebhookSend(k, b)
    \/ \E k \in TaskIds : TestWebhookPersist(k)

SpecSend == Init /\ [][NextSend]_vars

\* The handlers: two users, one webhook, one test delivery; requests that
\* are accepted and requests that are rejected, by the owner, by the other
\* user and for an id no webhook has.
StoreUsers == {1, 2}
StoreWebhookIds == 1..(StoreWebhooks + 1)
FilteredCreateRequest ==
    [MinimalCreateRequest EXCEPT
        !.secret = "s1", !.description = "d1",
        !.filter_phone_numbers = Slice(<< <<"+", "1", " ", "2">> >>),
        !.filter_phone_match_type = "blacklist",
        !.filter_chat_type = "group",
        !.filter_group_jids = Slice(<<Str("g1")>>),
        !.filter_group_names = Slice(<<Str("family"), Str("work")>>)]
StoreCreateRequests ==
    {MinimalCreateRequest,
     FilteredCreateRequest,
     [MinimalCreateRequest EXCEPT !.url = ""],
     [MinimalCreateRequest EXCEPT !.url = "not a url"],
     [MinimalCreateRequest EXCEPT !.event_types = NilSlice],
     [MinimalCreateRequest EXCEPT !.event_types = Slice(<<>>)],
     [MinimalCreateRequest EXCEPT !.event_types = Slice(<< <<>> >>)],
     [MinimalCreateRequest EXCEPT !.filter_phone_match_type = "greylist"],
     [MinimalCreateRequest EXCEPT !.filter_chat_type = "channel"]}
StoreUpdateRequests ==
    {EmptyUpdateRequest,
     [EmptyUpdateRequest EXCEPT !.url = "http://b"],
     [EmptyUpdateRequest EXCEPT !.url = "not a url"],
     [EmptyUpdateRequest EXCEPT !.description = "d2"],
     [EmptyUpdateRequest EXCEPT !.event_types = Slice(<<>>)],
     [EmptyUpdateRequest EXCEPT !.is_active = Bool(FALSE)],
     [EmptyUpdateRequest EXCEPT !.filter_group_names = Slice(<<>>)],
     [EmptyUpdateRequest EXCEPT !.filter_phone_numbers = Slice(<<>>),
                                !.filter_group_jids = Slice(<<>>)],
     [EmptyUpdateRequest EXCEPT !.filter_chat_type = "individual"],
     [EmptyUpdateRequest EXCEPT !.filter_phone_match_type = "greylist"],
     [EmptyUpdateRequest EXCEPT !.filter_chat_type = "channel"]}

NextStore ==
    \/ /\ nextWebhookID <= StoreWebhooks
       /\ \E u \in StoreUsers, req \in StoreCreateRequests : CreateWebhook(u, req)
    \/ \E u \in StoreUsers, w \in StoreWebhookIds : GetWebhook(u, w)
    \/ \E u \in StoreUsers, w \in StoreWebhookIds, req \in StoreUpdateRequests :
          UpdateWebhook(u, w, req)
    \/ \E u \in StoreUsers, w \in StoreWebhookIds : DeleteWebhook(u, w)
    \/ \E u \in StoreUsers, w \in StoreWebhookIds :
          (Owned(u, w) => Room(1, StoreDeliveries)) /\ TestWebhookStart(u, w)
    \/ \E k \in TaskIds, b \in EndpointBehaviours : TestWebhookSend(k, b)
    \/ \E k \in TaskIds : TestWebhookPersist(k)
    \/ \E u \in StoreUsers, w \in StoreWebhookIds :
          ListWebhookDeliveries(u, w, NoQuery, NoQuery)
    \/ \E u \in StoreUsers, w \in StoreWebhookIds : GetWebhookStats(u, w)

SpecStore == Init /\ [][NextStore]_vars

\* Shutdown: one webhook, one failing delivery, the retry loop statement by
\* statement and one call of Stop, up to minute StopHorizon. A loop that is
\* in its select with stopChan closed runs before the next minute begins.
NextStop ==
    \/ /\ nextWebhookID <= MaxWebhooks
       /\ \E u \in Users : CreateWebhook(u, MinimalCreateRequest)
    \/ \E u \in Users, e \in EventTypes :
          /\ Subscribers(u, e, OtherData) # {}
          /\ Room(1, MaxDeliveries)
          /\ TriggerWebhooks(u, e, OtherData)
    \/ \E k \in TaskIds, b \in EndpointBehaviours : DeliverSend(k, b)
    \/ \E k \in TaskIds : DeliverPersist(k)
    \/ LoopTick
    \/ LoopLaunch
    \/ LoopScanned
    \/ LoopReturn
    \/ StopClose
    \/ StopReturn
    \/ \E k \in TaskIds : RetryFetchActive(k)
    \/ \E k \in TaskIds, b \in EndpointBehaviours : RetrySend(k, b)
    \/ \E k \in TaskIds : RetryPersist(k)
    \/ /\ now < StopHorizon
       /\ ~(service.loop = "select" /\ service.stopChan = "closed")
       /\ AdvanceClock

SpecStop == Init /\ [][NextStop]_vars

\* calculateNextRetry on its own: called once, at any minute up to MaxCallNow,
\* with any retry count up to MaxRetryCount.
InitCalculateNextRetry ==
    /\ now \in 0..MaxCallNow
    /\ call \in {[fn |-> "calculateNextRetry", retryCount |-> i, returned |-> FALSE,
                  result |-> NULL] : i \in 0..MaxRetryCount}
    /\ EmptyStore

CallCalculateNextRetry ==
    /\ call.fn = "calculateNextRetry"
    /\ ~call.returned
    /\ call' = [call EXCEPT !.returned = TRUE,
                            !.result = calculateNextRetry(call.retryCount)]
    /\ UNCHANGED <<now, ticked, webhooks, nextWebhookID, deliveries, nextDeliveryID,
                   tasks, response, retrySends, skipped, service, stream>>

NextCalculateNextRetry == CallCalculateNextRetry

SpecCalculateNextRetry == InitCalculateNextRetry /\ [][NextCalculateNextRetry]_vars

\* matchesFilters on its own: called once for a stored webhook and the data
\* extractMessageData builds from a message.
ExamplePhoneEntry ==
    <<"+", "1", " ", "2", "3", "4", "-", "5", "6", "7", "-", "8", "9", "0", "0">>
ExampleSenderPhone == <<"1", "2", "3", "4", "5", "6", "7", "8", "9", "0", "0">>
FilterPhoneLists ==
    {NilSlice,
     Slice(<<ExamplePhoneEntry>>),
     Slice(<< <<"3">>, <<"1", "-", "2">> >>),
     Slice(<< <<" ">> >>)}
FilterMatchTypes == {"", "whitelist", "blacklist"}
FilterChatTypes == {"", "all", "individual", "group"}
FilterGroupJIDLists == {NilSlice, Slice(<<Str("G1")>>), Slice(<<Str("g2"), Str("alice")>>)}
FilterGroupNameLists == {NilSlice, Slice(<<Str("FAMILY")>>), Slice(<<Str("work"), Str("g1")>>)}
FilterRequests ==
    {[MinimalCreateRequest EXCEPT
         !.event_types = Slice(<<Str("message_received")>>),
         !.filter_phone_numbers = p, !.filter_phone_match_type = m,
         !.filter_chat_type = c, !.filter_group_jids = j, !.filter_group_names = n] :
       p \in FilterPhoneLists, m \in FilterMatchTypes, c \in FilterChatTypes,
       j \in FilterGroupJIDLists, n \in FilterGroupNameLists}
SenderPhones == {ExampleSenderPhone, <<"1", "2">>, <<"4">>}
Messages ==
    {Message(Str(s), p, TRUE, Str(g), Str(n)) :
        s \in {"alice", "bob"}, p \in SenderPhones, g \in {"g1", "g2"},
        n \in {"family", "work"}}
    \cup {Message(Str(s), p, FALSE, Str(s), <<>>) :
             s \in {"alice", "bob"}, p \in SenderPhones}

InitMatchesFilters ==
    /\ now = 0
    /\ call \in {[fn |-> "matchesFilters", webhook |-> NewWebhook(1, req), msg |-> m,
                  returned |-> FALSE, result |-> FALSE] :
                    req \in FilterRequests, m \in Messages}
    /\ EmptyStore

CallMatchesFilters ==
    /\ call.fn = "matchesFilters"
    /\ ~call.returned
    /\ call' = [call EXCEPT
                   !.returned = TRUE,
                   !.result = matchesFilters(call.webhook, extractMessageData(call.msg))]
    /\ UNCHANGED <<now, ticked, webhooks, nextWebhookID, deliveries, nextDeliveryID,
                   tasks, response, retrySends, skipped, service, stream>>

NextMatchesFilters == CallMatchesFilters

SpecMatchesFilters == InitMatchesFilters /\ [][NextMatchesFilters]_vars

\* The read handlers over a store with several delivery rows: rows are made
\* by first deliveries and by test deliveries, with a successful and a failed
\* answer; the limit and offset parameters are absent or not a number
\* (NoQuery), negative, zero, within the range and past it.
ReadUsers == {1}

ReadWebhookIds == 1..ReadWebhooks

ReadBehaviours == {200, 500}

ReadLimits == {NoQuery, Query(-1), Query(0), Query(1), Query(2), Query(100), Query(101)}

ReadOffsets == {NoQuery, Query(-1), Query(0), Query(1), Query(ReadDeliveries)}

NextReads ==
    \/ /\ nextWebhookID <= ReadWebhooks
       /\ \E u \in ReadUsers : CreateWebhook(u, MinimalCreateRequest)
    \/ \E u \in ReadUsers, e \in EventTypes :
          /\ Subscribers(u, e, OtherData) # {}
          /\ Room(Cardinality(Subscribers(u, e, OtherData)), ReadDeliveries)
          /\ TriggerWebhooks(u, e, OtherData)
    \/ \E k \in TaskIds, b \in ReadBehaviours : DeliverSend(k, b)
    \/ \E k \in TaskIds : DeliverPersist(k)
    \/ \E u \in ReadUsers, w \in ReadWebhookIds :
          Owned(u, w) /\ Room(1, ReadDeliveries) /\ TestWebhookStart(u, w)
    \/ \E k \in TaskIds, b \in ReadBehaviours : TestWebhookSend(k, b)
    \/ \E k \in TaskIds : TestWebhookPersist(k)
    \/ \E u \in ReadUsers, w \in ReadWebhookIds, l \in ReadLimits, o \in ReadOffsets :
          ListWebhookDeliveries(u, w, l, o)
    \/ \E u \in ReadUsers, w \in ReadWebhookIds : GetWebhookStats(u, w)

SpecReads == Init /\ [][NextReads]_vars

\* Signing: one webhook created with or without a secret, the secret set or
\* changed at any moment, first deliveries, test deliveries and the retries of
\* the tick of minute SignHorizon.
NextSign ==
    \/ /\ nextWebhookID <= MaxWebhooks
       /\ \E u \in Users, s \in CreateSecrets :
             CreateWebhook(u, [MinimalCreateRequest EXCEPT !.secret = s])
    \/ \E u \in Users, w \in WebhookIds, s \in RotatedSecrets :
          UpdateWebhook(u, w, [EmptyUpdateRequest EXCEPT !.secret = s])
    \/ \E u \in Users, e \in EventTypes :
          /\ Subscribers(u, e, OtherData) # {}
          /\ Room(Cardinality(Subscribers(u, e, OtherData)), SignDeliveries)
          /\ TriggerWebhooks(u, e, OtherData)
    \/ \E k \in TaskIds, b \in EndpointBehaviours : DeliverSend(k, b)
    \/ \E k \in TaskIds : DeliverPersist(k)
    \/ \E u \in Users, w \in WebhookIds :
          Owned(u, w) /\ Room(1, SignDeliveries) /\ TestWebhookStart(u, w)
    \/ \E k \in TaskIds, b \in EndpointBehaviours : TestWebhookSend(k, b)
    \/ \E k \in TaskIds : TestWebhookPersist(k)
    \/ retryFailedDeliveries
    \/ \E k \in TaskIds : RetryFetchActive(k)
    \/ \E k \in TaskIds, b \in EndpointBehaviours : RetrySend(k, b)
    \/ \E k \in TaskIds : RetryPersist(k)
    \/ now < SignHorizon /\ AdvanceClock

SpecSign == Init /\ [][NextSign]_vars

\* ValidateSignature called on its own: payloads, secrets (the empty one
\* among them), and as presented signature nothing, the bare prefix, and the
\* signature of any of the payloads under any of the secrets, bare, prefixed
\* once and prefixed twice.
VerifyPayloads == {<<>>, Str("a"), Str("b")}

VerifySecrets == {"", "s1", "s2"}

VerifySignatures ==
    {<<>>, <<"sha256=">>}
        \cup {calculateSignature(p, s) : p \in VerifyPayloads, s \in VerifySecrets}
        \cup {<<"sha256=">> \o calculateSignature(p, s) :
                 p \in VerifyPayloads, s \in VerifySecrets}
        \cup {<<"sha256=", "sha256=">> \o calculateSignature(p, s) :
                 p \in VerifyPayloads, s \in VerifySecrets}

InitValidateSignature ==
    /\ now = 0
    /\ call \in {[fn |-> "ValidateSignature", payload |-> p, secret |-> s,
                  signature |-> g, returned |-> FALSE, result |-> FALSE] :
                    p \in VerifyPayloads, s \in VerifySecrets, g \in VerifySignatures}
    /\ EmptyStore

CallValidateSignature ==
    /\ call.fn = "ValidateSignature"
    /\ ~call.returned
    /\ call' = [call EXCEPT
                   !.returned = TRUE,
                   !.result = ValidateSignature(call.payload, call.secret, call.signature)]
    /\ UNCHANGED <<now, ticked, webhooks, nextWebhookID, deliveries, nextDeliveryID,
                   tasks, response, retrySends, skipped, service, stream>>

NextValidateSignature == CallValidateSignature

SpecValidateSignature == InitValidateSignature /\ [][NextValidateSignature]_vars

\* The handlers that answer with webhooks, over stores whose secrets vary:
\* two users, webhooks created with one of three secrets and two URLs, the
\* secret or the description changed afterwards.
SecretUsers == {1, 2}

SecretWebhookIds == 1..SecretWebhooks

SecretValues == {"", "s1", "s2"}

SecretCreateRequests ==
    {[MinimalCreateRequest EXCEPT !.secret = s, !.url = u] :
        s \in SecretValues, u \in {"http://a", "http://b"}}

SecretUpdateRequests ==
    {[EmptyUpdateRequest EXCEPT !.secret = s] : s \in SecretValues \ {""}}
        \cup {[EmptyUpdateRequest EXCEPT !.description = "d1"]}

NextSecrets ==
    \/ /\ nextWebhookID <= SecretWebhooks
       /\ \E u \in SecretUsers, req \in SecretCreateRequests : CreateWebhook(u, req)
    \/ \E u \in SecretUsers, w \in SecretWebhookIds, req \in SecretUpdateRequests :
          UpdateWebhook(u, w, req)
    \/ \E u \in SecretUsers, w \in SecretWebhookIds : GetWebhook(u, w)
    \/ \E u \in SecretUsers : ListWebhooks(u)

SpecSecrets == Init /\ [][NextSecrets]_vars

\* A slow endpoint: one user with SlowWebhooks webhooks, one trigger that
\* reaches them all, endpoints that fail or succeed, and the tick of minute
\* SlowHorizon with its retries; a goroutine may stay in its send for as long
\* as the run lasts.
SlowWebhookIds == 1..SlowWebhooks

SlowCreateRequests ==
    {MinimalCreateRequest, [MinimalCreateRequest EXCEPT !.url = "http://b"]}

NextSlow ==
    \/ /\ nextWebhookID <= SlowWebhooks
       /\ \E u \in Users, req \in SlowCreateRequests : CreateWebhook(u, req)
    \/ \E u \in Users, e \in EventTypes :
          /\ Subscribers(u, e, OtherData) # {}
          /\ Room(Cardinality(Subscribers(u, e, OtherData)), SlowWebhooks)
          /\ TriggerWebhooks(u, e, OtherData)
    \/ \E k \in TaskIds, b \in EndpointBehaviours : DeliverSend(k, b)
    \/ \E k \in TaskIds : DeliverPersist(k)
    \/ retryFailedDeliveries
    \/ \E k \in TaskIds : RetryFetchActive(k)
    \/ \E k \in TaskIds, b \in EndpointBehaviours : RetrySend(k, b)
    \/ \E k \in TaskIds : RetryPersist(k)
    \/ now < SlowHorizon /\ AdvanceClock

SpecSlow == Init /\ [][NextSlow]_vars

\* Statistics read query by query while first deliveries, the retries of the
\* tick of minute StatsHorizon and the deletion of the webhook go on.
NextStats ==
    \/ /\ nextWebhookID <= MaxWebhooks
       /\ \E u \in Users : CreateWebhook(u, MinimalCreateRequest)
    \/ \E u \in Users, w \in WebhookIds : Owned(u, w) /\ DeleteWebhook(u, w)
    \/ \E u \in Users, e \in EventTypes :
          /\ Subscribers(u, e, OtherData) # {}
          /\ Room(Cardinality(Subscribers(u, e, OtherData)), StatsDeliveries)
          /\ TriggerWebhooks(u, e, OtherData)
    \/ \E k \in TaskIds, b \in ReadBehaviours : DeliverSend(k, b)
    \/ \E k \in TaskIds : DeliverPersist(k)
    \/ retryFailedDeliveries
    \/ \E k \in TaskIds : RetryFetchMissing(k)
    \/ \E k \in TaskIds : RetryFetchActive(k)
    \/ \E k \in TaskIds, b \in ReadBehaviours : RetrySend(k, b)
    \/ \E k \in TaskIds : RetryPersist(k)
    \/ \E u \in Users, w \in WebhookIds : Owned(u, w) /\ StatsStart(u, w)
    \/ \E k \in TaskIds : StatsCountTotal(k)
    \/ \E k \in TaskIds : StatsCountSuccess(k)
    \/ \E k \in TaskIds : StatsCountFailed(k)
    \/ \E k \in TaskIds : StatsRespond(k)
    \/ now < StatsHorizon /\ AdvanceClock

SpecStats == Init /\ [][NextStats]_vars

\* The EventStream alone: handlers subscribe, read their channel and
\* unsubscribe, other goroutines broadcast, MaxCallers of them at a time.
ChanIds == 1..MaxChans
Events == {"message"}

NextStream ==
    \/ \E p \in Callers : Len(stream.chans) < MaxChans /\ SubscribeCall(p)
    \/ \E p \in Callers : SubscribeLock(p)
    \/ \E p \in Callers : SubscribeReturn(p)
    \/ \E p \in Callers, ch \in ChanIds : UnsubscribeCall(p, ch)
    \/ \E p \in Callers : UnsubscribeLock(p)
    \/ \E p \in Callers : UnsubscribeReturn(p)
    \/ \E p \in Callers, event \in Events : BroadcastCall(p, event)
    \/ \E p \in Callers : BroadcastRLock(p)
    \/ \E p \in Callers, ch \in ChanIds : BroadcastSelect(p, ch)
    \/ \E p \in Callers : BroadcastReturn(p)
    \/ \E ch \in ChanIds : Receive(ch)

SpecStream == Init /\ [][NextStream]_vars

\* ================================================================== claims

\* The table of retry waits as the specification states it, in minutes.
SpecBackoff(i) ==
    CASE i = 0 -> 1 [] i = 1 -> 5 [] i = 2 -> 15 [] i = 3 -> 30 [] OTHER -> 60

\* Goroutine k takes the step named, in the step from the unprimed state.
RetrySendStep(k) ==
    tasks[k].kind = "retry" /\ tasks[k].pc = "send" /\ tasks'[k] # tasks[k]
RetryPersistStep(k) ==
    tasks[k].kind = "retry" /\ tasks[k].pc = "persist" /\ tasks'[k] # tasks[k]
RetryFetchStep(k) ==
    tasks[k].kind = "retry" /\ tasks[k].pc = "fetch" /\ tasks'[k] # tasks[k]
DeliverSendStep(k) ==
    tasks[k].kind = "deliver" /\ tasks[k].pc = "send" /\ tasks'[k] # tasks[k]
DeliverPersistStep(k) ==
    tasks[k].kind = "deliver" /\ tasks[k].pc = "persist" /\ tasks'[k] # tasks[k]
Launched(k, kind) == tasks[k] = Idle /\ tasks'[k].kind = kind

\* C1: every delivery row, however it was written, has a next-retry time only
\* if it failed and its retry count is below 5, and a successful row has none.
NextRetryOnlyWhilePending ==
    \A r \in DOMAIN deliveries :
        /\ deliveries[r].next_retry_at # NULL =>
              deliveries[r].success = FALSE /\ deliveries[r].retry_count < 5
        /\ deliveries[r].success = TRUE => deliveries[r].next_retry_at = NULL

\* A row that failed, got a next-retry time, and was resolved by a retry.
ResolvedByRetry ==
    \E r \in DOMAIN deliveries :
        /\ deliveries[r].success = TRUE
        /\ deliveries[r].retry_count >= 1
        /\ deliveries[r].next_retry_at = NULL

\* C2: a row whose retry count is 5 has no next-retry time, and the retry path
\* sends no HTTP re-attempt for a row whose retry count is 5.
RetryCeiling ==
    [][/\ \A r \in DOMAIN deliveries' :
             deliveries'[r].retry_count = 5 => deliveries'[r].next_retry_at = NULL
       /\ \A k \in TaskIds :
             RetrySendStep(k) /\ tasks[k].d.id \in DOMAIN deliveries =>
                 deliveries[tasks[k].d.id].retry_count # 5]_vars

\* C3: the row of a test delivery takes part in no retry: no retry goroutine
\* is ever started for it.
TestDeliveryNeverRetried ==
    \A k \in TaskIds :
        tasks[k].kind = "retry" /\ tasks[k].d.id \in DOMAIN deliveries =>
            deliveries[tasks[k].d.id].event_type # TestEvent

\* C4: no two retries of the same row are in flight together.
NoConcurrentRetries ==
    \A j, k \in TaskIds :
        j # k /\ tasks[j].kind = "retry" /\ tasks[k].kind = "retry" =>
            tasks[j].d.id # tasks[k].d.id

\* C5: a row's retry count equals the number of re-attempts completed for it.
RetryCountCountsReattempts ==
    \A r \in DOMAIN deliveries : deliveries[r].retry_count = retrySends[r]

\* C6: the row of a first attempt that failed has success = false, retry count
\* 0 and next-retry time = now + 1 minute; the row of one that succeeded has
\* success = true and no next-retry time.
FirstAttemptRow ==
    [][\A k \in TaskIds :
          DeliverPersistStep(k) =>
              /\ nextDeliveryID \in DOMAIN deliveries'
              /\ LET row == deliveries'[nextDeliveryID]
                 IN  IF tasks[k].res.success
                     THEN row.success = TRUE /\ row.next_retry_at = NULL
                     ELSE /\ row.success = FALSE
                          /\ row.retry_count = 0
                          /\ row.next_retry_at = now + 1]_vars

\* A first attempt has just failed and its row waits one minute.
FailedFirstAttempt ==
    \E r \in DOMAIN deliveries :
        /\ deliveries[r].event_type # TestEvent
        /\ deliveries[r].success = FALSE
        /\ deliveries[r].retry_count = 0
        /\ deliveries[r].next_retry_at = now + 1

\* C7: a retry started for a row with retry count n leaves the row resolved
\* (success, no next-retry time) when it succeeds; with retry count n + 1 and
\* next-retry time now + backoff(n + 1) when it fails and n + 1 < 5; with retry
\* count 5 and no next-retry time when it fails and n + 1 = 5.
RetryOutcome ==
    [][\A k \in TaskIds :
          RetryPersistStep(k) /\ tasks[k].d.id \in DOMAIN deliveries =>
              LET n   == tasks[k].d.retry_count
                  row == deliveries'[tasks[k].d.id]
              IN  /\ tasks[k].res.success =>
                        row.success = TRUE /\ row.next_retry_at = NULL
                  /\ ~tasks[k].res.success /\ n + 1 < 5 =>
                        /\ row.success = FALSE
                        /\ row.retry_count = n + 1
                        /\ row.next_retry_at = now + SpecBackoff(n + 1)
                  /\ ~tasks[k].res.success /\ n + 1 = 5 =>
                        /\ row.success = FALSE
                        /\ row.retry_count = 5
                        /\ row.next_retry_at = NULL]_vars

\* A row that failed six times in all: exhausted.
Exhausted ==
    \E r \in DOMAIN deliveries :
        /\ deliveries[r].success = FALSE
        /\ deliveries[r].retry_count = 5
        /\ deliveries[r].next_retry_at = NULL
        /\ retrySends[r] = 5

\* C8: a tick starts retries only for rows with success = false, retry count
\* below 5 and next-retry time <= now, and no re-attempt is sent for a pending
\* row before its next-retry time.
RetryOnlyWhenDue ==
    [][/\ \A k \in TaskIds :
             Launched(k, "retry") =>
                 LET row == deliveries[tasks'[k].d.id]
                 IN  /\ row.success = FALSE
                     /\ row.retry_count < 5
                     /\ row.next_retry_at # NULL
                     /\ row.next_retry_at <= now
       /\ \A k \in TaskIds :
             RetrySendStep(k) /\ tasks[k].d.id \in DOMAIN deliveries =>
                 LET row == deliveries[tasks[k].d.id]
                 IN  row.next_retry_at # NULL => row.next_retry_at <= now]_vars

\* C9 as stated: no first attempt and no retry is sent while the webhook is
\* inactive.
NoSendWhileInactive ==
    [][\A k \in TaskIds :
          (DeliverSendStep(k) \/ RetrySendStep(k)) /\ tasks[k].wh.id \in DOMAIN webhooks =>
              webhooks[tasks[k].wh.id].is_active]_vars

\* C9 as amended: a first attempt is started only for a webhook that is active
\* when the trigger reads it, and a retry goes on to send only if the webhook
\* is active when the retry reads it.
NoSendUnlessActiveWhenRead ==
    [][\A k \in TaskIds :
          /\ Launched(k, "deliver") =>
                /\ tasks'[k].wh.id \in DOMAIN webhooks
                /\ webhooks[tasks'[k].wh.id].is_active
          /\ RetryFetchStep(k) /\ tasks'[k] # Idle =>
                /\ tasks[k].d.webhook_id \in DOMAIN webhooks
                /\ webhooks[tasks[k].d.webhook_id].is_active]_vars

\* A delivery has been sent and its webhook has been deactivated since the
\* goroutine read it.
SentThenDeactivated ==
    \E k \in TaskIds :
        /\ tasks[k].kind \in {"deliver", "retry"}
        /\ tasks[k].pc = "persist"
        /\ tasks[k].wh.id \in DOMAIN webhooks
        /\ ~webhooks[tasks[k].wh.id].is_active

\* C10: a retry that finds its webhook inactive sends nothing and changes no
\* row, so a row that was due is still due.
SkipLeavesRowUntouched ==
    [][\A k \in TaskIds :
          /\ RetryFetchStep(k)
          /\ tasks[k].d.webhook_id \in DOMAIN webhooks
          /\ ~webhooks[tasks[k].d.webhook_id].is_active
          => /\ tasks'[k] = Idle
             /\ deliveries' = deliveries
             /\ \A r \in DOMAIN deliveries :
                   Due(deliveries[r], now) => Due(deliveries'[r], now')]_vars

\* A retry was skipped for a row that is still due, its webhook still inactive.
SkippedStillDue ==
    \E r \in skipped :
        /\ r \in DOMAIN deliveries
        /\ Due(deliveries[r], now)
        /\ deliveries[r].webhook_id \in DOMAIN webhooks
        /\ ~webhooks[deliveries[r].webhook_id].is_active

\* C11: a row's payload and event type are the same in every state from its
\* creation on, and the body a retry sends is the payload stored in its row.
PayloadImmutable ==
    [][/\ \A r \in DOMAIN deliveries \cap DOMAIN deliveries' :
             /\ deliveries'[r].payload = deliveries[r].payload
             /\ deliveries'[r].event_type = deliveries[r].event_type
       /\ \A k \in TaskIds :
             RetrySendStep(k) /\ tasks[k].d.id \in DOMAIN deliveries =>
                 tasks'[k].req.body = deliveries[tasks[k].d.id].payload]_vars

\* A retry has re-sent, at a later minute, the payload built at the first
\* attempt, and has written its outcome to the row.
RetriedWithStoredPayload ==
    \E r \in DOMAIN deliveries :
        /\ deliveries[r].retry_count >= 1
        /\ deliveries[r].payload.timestamp < now
        /\ \E k \in TaskIds :
              /\ tasks[k].kind = "retry" /\ tasks[k].pc = "persist"
              /\ tasks[k].d.id = r
              /\ tasks[k].req.body = deliveries[r].payload

\* C13: no delivery row refers to a webhook that has been deleted (ids are
\* never reused, so a row's webhook is missing only after its deletion).
NoRowOfDeletedWebhook ==
    \A r \in DOMAIN deliveries : deliveries[r].webhook_id \in DOMAIN webhooks

\* C12: a retry reads the webhook's secret from the table when it runs and
\* signs the stored payload with that secret; it sends the signature header
\* exactly when that secret is not empty.
RetrySignsWithCurrentSecret ==
    [][\A k \in TaskIds :
          /\ RetryFetchStep(k) /\ tasks'[k] # Idle =>
                tasks'[k].wh.secret = webhooks[tasks[k].d.webhook_id].secret
          /\ RetrySendStep(k) =>
                tasks'[k].req.signature_header =
                    IF tasks[k].wh.secret = "" THEN <<>>
                    ELSE <<"sha256=">> \o
                             calculateSignature(tasks[k].d.payload, tasks[k].wh.secret)
         ]_vars

\* A retry has sent a signature made with "s2", a secret no webhook is created
\* with: the secret was changed after the first attempt.
RetrySignedAfterRotation ==
    \E k \in TaskIds :
        /\ tasks[k].kind = "retry" /\ tasks[k].pc = "persist"
        /\ tasks[k].req.signature_header =
               <<"sha256=">> \o calculateSignature(tasks[k].d.payload, "s2")

\* C14: a trigger starts one delivery task per destination, each holding that
\* destination's own row; each task posts once, to its destination's URL, with
\* the signature made from its destination's secret and a payload naming its
\* destination; each task then stores exactly one row, under its destination.
FanoutOneAttemptEach ==
    [][/\ \A j, k \in TaskIds :
             Launched(j, "deliver") /\ Launched(k, "deliver") /\ j # k =>
                 tasks'[j].wh.id # tasks'[k].wh.id
       /\ \A k \in TaskIds :
             /\ Launched(k, "deliver") =>
                   /\ tasks'[k].wh.id \in DOMAIN webhooks
                   /\ tasks'[k].wh.url = webhooks[tasks'[k].wh.id].url
                   /\ tasks'[k].wh.secret = webhooks[tasks'[k].wh.id].secret
                   /\ tasks'[k].pc = "send"
             /\ DeliverSendStep(k) =>
                   /\ tasks'[k].pc = "persist"
                   /\ tasks'[k].wh = tasks[k].wh
                   /\ tasks'[k].req.url = tasks[k].wh.url
                   /\ tasks'[k].req.body.webhook_id = ToString(tasks[k].wh.id)
                   /\ tasks'[k].req.signature_header =
                         IF tasks[k].wh.secret = "" THEN <<>>
                         ELSE <<"sha256=">> \o
                                  calculateSignature(tasks'[k].req.body, tasks[k].wh.secret)
                   /\ deliveries' = deliveries
             /\ DeliverPersistStep(k) =>
                   /\ tasks'[k] = Idle
                   /\ DOMAIN deliveries' = DOMAIN deliveries \cup {nextDeliveryID}
                   /\ nextDeliveryID \notin DOMAIN deliveries
                   /\ deliveries'[nextDeliveryID].webhook_id = tasks[k].wh.id
                   /\ deliveries'[nextDeliveryID].payload.webhook_id =
                          ToString(tasks[k].wh.id)
                   /\ \A r \in DOMAIN deliveries : deliveries'[r] = deliveries[r]]_vars

\* One trigger has fanned out to two webhooks of one user with different URLs
\* and secrets, and each has its own row.
FannedOutToTwo ==
    \E r1, r2 \in DOMAIN deliveries :
        /\ deliveries[r1].webhook_id # deliveries[r2].webhook_id
        /\ deliveries[r1].payload.timestamp = deliveries[r2].payload.timestamp
        /\ deliveries[r1].payload.event = deliveries[r2].payload.event
        /\ deliveries[r1].webhook_id \in DOMAIN webhooks
        /\ deliveries[r2].webhook_id \in DOMAIN webhooks
        /\ webhooks[deliveries[r1].webhook_id].url # webhooks[deliveries[r2].webhook_id].url
        /\ webhooks[deliveries[r1].webhook_id].secret
               # webhooks[deliveries[r2].webhook_id].secret

\* A string with every token in lower case.
Folded(s) == [i \in 1..Len(s) |-> Lower(s[i])]

\* The destinations the specification has trigger(userID, eventType, data)
\* deliver to.
Matched(userID, eventType, data) ==
    {d \in DOMAIN webhooks :
        /\ webhooks[d].user_id = userID
        /\ webhooks[d].is_active
        /\ \E i \in 1..Len(ToResponse(d, webhooks[d]).event_types) :
              Folded(ToResponse(d, webhooks[d]).event_types[i]) = Folded(eventType)
        /\ data.kind = "message" => matchesFilters(webhooks[d], data)}

\* C15: trigger(userID, eventType, data) starts a delivery to exactly the
\* destinations that userID owns, that are active, whose event types contain
\* eventType whatever the case, and that the filters accept for message data
\* (a trigger leaves the tasks already running as they are).
TriggerMatchesExactly ==
    [][(\A k \in TaskIds : tasks[k] # Idle => tasks'[k] = tasks[k]) =>
          \A u \in FanoutUsers, t \in FanoutTriggers :
              TriggerWebhooks(u, t.event, t.data) =>
                  /\ {tasks'[k].wh.id : k \in {j \in TaskIds : Launched(j, "deliver")}}
                         = Matched(u, t.event, t.data)
                  /\ \A k \in TaskIds :
                        Launched(k, "deliver") =>
                            tasks'[k].event_type = t.event /\ tasks'[k].data = t.data
      ]_vars

\* A delivery of "connected" runs for a webhook stored with "CONNECTED", while
\* another user's webhook subscribed to the same event gets none.
MatchedIgnoringCase ==
    \E k \in TaskIds, other \in DOMAIN webhooks :
        /\ tasks[k].kind = "deliver" /\ tasks[k].pc = "send"
        /\ tasks[k].event_type = Str("connected")
        /\ tasks[k].wh.id \in DOMAIN webhooks
        /\ Str("CONNECTED") \in
               {ParseEventTypes(webhooks[tasks[k].wh.id].event_types)[i] :
                   i \in 1..Len(ParseEventTypes(webhooks[tasks[k].wh.id].event_types))}
        /\ webhooks[other].user_id # webhooks[tasks[k].wh.id].user_id
        /\ webhooks[other].is_active
        /\ \A j \in TaskIds : tasks[j] # Idle => tasks[j].wh.id # other
        /\ deliveries = <<>>

\* C16: an attempt is a success exactly when a response came back with a
\* status from 200 to 299; an attempt without a response is a failure with
\* status 0 and an error message.
SuccessIff2xx ==
    \A k \in TaskIds :
        tasks[k] # Idle /\ tasks[k].pc = "persist" =>
            LET res == tasks[k].res
                responded == res.err = ""
            IN  /\ res.success <=> (responded /\ res.status >= 200 /\ res.status < 300)
                /\ ~responded => res.success = FALSE /\ res.status = 0
                /\ responded => res.status # 0

\* One attempt got no response and another got status 300.
TransportErrorAnd300 ==
    \E j, k \in TaskIds :
        /\ tasks[j] # Idle /\ tasks[j].pc = "persist"
        /\ tasks[j].res.status = 0 /\ tasks[j].res.err # "" /\ ~tasks[j].res.success
        /\ tasks[k] # Idle /\ tasks[k].pc = "persist"
        /\ tasks[k].res.status = 300 /\ ~tasks[k].res.success

\* C17: every stored webhook has a URL, at least one event type, a chat-type
\* filter among all, individual and group, and a phone match mode among
\* whitelist and blacklist.
StoredWebhookValid ==
    \A w \in DOMAIN webhooks :
        /\ webhooks[w].url # ""
        /\ Len(ToResponse(w, webhooks[w]).event_types) > 0
        /\ webhooks[w].filter_chat_type \in {"all", "individual", "group"}
        /\ webhooks[w].filter_phone_match_type \in {"whitelist", "blacklist"}

\* The step is an accepted update of webhook w.
UpdateAccepted(w) ==
    /\ response'.op = "update" /\ response'.status = 200
    /\ response'.webhook_id = w
    /\ w \in DOMAIN webhooks /\ w \in DOMAIN webhooks'

\* C18: an accepted update leaves every field the request did not supply as
\* it was.
UpdateTouchesOnlySuppliedFields ==
    [][\A w \in StoreWebhookIds :
          UpdateAccepted(w) =>
              LET req == response'.req
                  old == webhooks[w]
                  new == webhooks'[w]
              IN  /\ req.url = "" => new.url = old.url
                  /\ req.secret = "" => new.secret = old.secret
                  /\ req.description = "" => new.description = old.description
                  /\ req.event_types.nil => new.event_types = old.event_types
                  /\ req.is_active.nil => new.is_active = old.is_active
                  /\ req.filter_phone_numbers.nil =>
                        new.filter_phone_numbers = old.filter_phone_numbers
                  /\ req.filter_phone_match_type = "" =>
                        new.filter_phone_match_type = old.filter_phone_match_type
                  /\ req.filter_chat_type = "" =>
                        new.filter_chat_type = old.filter_chat_type
                  /\ req.filter_group_jids.nil =>
                        new.filter_group_jids = old.filter_group_jids
                  /\ req.filter_group_names.nil =>
                        new.filter_group_names = old.filter_group_names
                  /\ new.user_id = old.user_id]_vars

\* C19: an accepted update that supplies an empty list for a list-valued
\* filter leaves that filter empty, and one that omits the field leaves the
\* filter as it was.
ExplicitEmptyListClears ==
    [][\A w \in StoreWebhookIds :
          UpdateAccepted(w) =>
              LET req == response'.req
                  old == webhooks[w]
                  new == ToResponse(w, webhooks'[w])
              IN  /\ IF req.filter_phone_numbers.nil
                     THEN webhooks'[w].filter_phone_numbers = old.filter_phone_numbers
                     ELSE len(req.filter_phone_numbers) = 0 =>
                              new.filter_phone_numbers = <<>>
                  /\ IF req.filter_group_jids.nil
                     THEN webhooks'[w].filter_group_jids = old.filter_group_jids
                     ELSE len(req.filter_group_jids) = 0 => new.filter_group_jids = <<>>
                  /\ IF req.filter_group_names.nil
                     THEN webhooks'[w].filter_group_names = old.filter_group_names
                     ELSE len(req.filter_group_names) = 0 =>
                              new.filter_group_names = <<>>]_vars

\* An update has just cleared the group names of a webhook created with group
\* names and group JIDs alike, and has left the JIDs, which it did not supply.
NamesClearedJidsKept ==
    /\ response.op = "update" /\ response.status = 200
    /\ ~response.req.filter_group_names.nil
    /\ len(response.req.filter_group_names) = 0
    /\ response.req.filter_group_jids.nil
    /\ response.body.filter_group_names = <<>>
    /\ response.body.filter_group_jids = <<Str("g1")>>

\* The step answers a webhook-scoped request of a user who does not own the
\* webhook, or for an id no webhook has.
ScopedOps == {"get", "update", "delete", "test", "deliveries", "stats"}
AnswersStranger ==
    /\ response'.op \in ScopedOps
    /\ ~(/\ response'.webhook_id \in DOMAIN webhooks
         /\ webhooks[response'.webhook_id].user_id = response'.user_id)
    /\ \A k \in TaskIds : ~(tasks[k].kind = "test" /\ tasks'[k] = Idle)

\* C20, amended: a webhook-scoped request by a user who does not own the
\* webhook is answered as for an id no webhook has: 404 "Webhook not found",
\* or 400 when it is an update whose URL does not bind; and the step changes
\* no webhook, no delivery row and starts no HTTP delivery.
StrangerGetsNotFound ==
    [][AnswersStranger =>
          /\ IF /\ response'.op = "update"
                /\ response'.req.url # "" /\ ~ValidURL(response'.req.url)
             THEN response'.status = 400
             ELSE response'.status = 404
                      /\ response'.body = [error |-> "Webhook not found"]
          /\ webhooks' = webhooks
          /\ deliveries' = deliveries
          /\ tasks' = tasks]_vars

\* C20 as stated: a webhook-scoped request by a user who does not own the
\* webhook is answered 404 "Webhook not found" whatever the request, and the
\* step changes nothing and starts no HTTP delivery.
StrangerAlwaysNotFound ==
    [][AnswersStranger =>
          /\ response'.status = 404
          /\ response'.body = [error |-> "Webhook not found"]
          /\ webhooks' = webhooks
          /\ deliveries' = deliveries
          /\ tasks' = tasks]_vars

\* A request for an existing webhook by the user who does not own it has just
\* been answered 404.
StrangerRefused ==
    /\ response.op \in {"update", "delete", "test"}
    /\ response.status = 404
    /\ response.webhook_id \in DOMAIN webhooks
    /\ webhooks[response.webhook_id].user_id # response.user_id

\* C21: a create or update request answered 400 (URL that does not bind,
\* no event type, chat type or match mode outside its values, no field)
\* leaves the webhooks table and the id counter as they were.
RejectedLeavesStore ==
    [][response'.op \in {"create", "update"} /\ response'.status = 400 =>
          /\ webhooks' = webhooks
          /\ nextWebhookID' = nextWebhookID
          /\ deliveries' = deliveries]_vars

\* The owner's update with a chat type outside the three values has just been
\* answered 400 and the stored chat type is still one of the three.
RejectedUpdateOfOwner ==
    /\ response.op = "update" /\ response.status = 400
    /\ response.req.filter_chat_type = "channel"
    /\ response.webhook_id \in DOMAIN webhooks
    /\ webhooks[response.webhook_id].user_id = response.user_id
    /\ webhooks[response.webhook_id].filter_chat_type # "channel"

\* C22: once stopChan is closed no retry goroutine is started, a retry in
\* flight leaves only by finishing, and Stop has returned only when no retry
\* is in flight.
StopHaltsRetries ==
    [][/\ service.stopChan = "closed" => \A k \in TaskIds : ~Launched(k, "retry")
       /\ \A k \in TaskIds :
             tasks[k].kind = "retry" /\ tasks'[k] = Idle =>
                 RetryPersistStep(k) \/ RetryFetchStep(k)
       /\ service'.stop = "returned" => \A k \in TaskIds : tasks'[k].kind # "retry"
      ]_vars

\* C23, the count of re-attempts: no row gets more than 5 re-attempts, and a
\* row that is exhausted (failed, retry count 5) has had exactly 5.
FiveReattemptsThenExhausted ==
    \A r \in DOMAIN deliveries :
        /\ retrySends[r] <= MaxRetries
        /\ deliveries[r].success = FALSE /\ deliveries[r].retry_count = MaxRetries =>
              retrySends[r] = MaxRetries

\* C24: the wait calculateNextRetry adds to the clock is 1, 5, 15, 30 minutes
\* for retry counts 0..3 and 60 minutes for every count from 4 on, and it is
\* never longer than the wait for the next count.
BackoffMonotoneThenConstant ==
    call.fn = "calculateNextRetry" /\ call.returned =>
        /\ call.result - now = SpecBackoff(call.retryCount)
        /\ call.result <= calculateNextRetry(call.retryCount + 1)
        /\ call.retryCount >= 4 => call.result = calculateNextRetry(4)

\* calculateNextRetry has returned for a retry count past the end of its table.
BackoffPastTheTable ==
    /\ call.fn = "calculateNextRetry" /\ call.returned
    /\ call.retryCount > Len(intervals)
    /\ call.result = now + 60

\* The filter as the specification states it, on the lists the webhook's
\* response shows and on the message: a phone is listed when its digits are the
\* digits of an entry; a group is listed by its JID, or by its display name,
\* whatever the case.
DigitsOf(phone) == SelectSeq(phone, LAMBDA t : t \in Digits)
Returned == call.fn = "matchesFilters" /\ call.returned
PhoneList == ToResponse(1, call.webhook).filter_phone_numbers
GroupJIDList == ToResponse(1, call.webhook).filter_group_jids
GroupNameList == ToResponse(1, call.webhook).filter_group_names
PhoneListed == \E i \in 1..Len(PhoneList) : DigitsOf(PhoneList[i]) = DigitsOf(call.msg.phone)
PhoneAccepts ==
    \/ PhoneList = <<>>
    \/ call.webhook.filter_phone_match_type = "whitelist" /\ PhoneListed
    \/ call.webhook.filter_phone_match_type = "blacklist" /\ ~PhoneListed
GroupJIDListed ==
    \E i \in 1..Len(GroupJIDList) : Folded(GroupJIDList[i]) = Folded(call.msg.chat)
GroupNameListed ==
    \E i \in 1..Len(GroupNameList) : Folded(GroupNameList[i]) = Folded(call.msg.subject)

\* C25: with no chat-type and no group filter, a non-empty phone list accepts
\* under whitelist exactly the senders it rejects under blacklist, namely
\* those whose digits are the digits of an entry, and an empty list accepts
\* every sender under both modes.
WhitelistBlacklistSymmetry ==
    Returned /\ call.webhook.filter_chat_type = "all"
             /\ GroupJIDList = <<>> /\ GroupNameList = <<>> =>
        /\ PhoneList # <<>> /\ call.webhook.filter_phone_match_type = "whitelist" =>
              call.result = PhoneListed
        /\ PhoneList # <<>> /\ call.webhook.filter_phone_match_type = "blacklist" =>
              call.result = ~PhoneListed
        /\ PhoneList = <<>> => call.result = TRUE

\* The entry "+1 234-567-8900" has let the sender 12345678900 through a
\* whitelist.
FormattedEntryMatched ==
    /\ Returned /\ call.result = TRUE
    /\ call.webhook.filter_phone_match_type = "whitelist"
    /\ PhoneList = <<ExamplePhoneEntry>>
    /\ call.msg.phone = ExampleSenderPhone
    /\ call.webhook.filter_chat_type = "all"
    /\ GroupJIDList = <<>> /\ GroupNameList = <<>>

\* C26: chat type individual rejects every group message and chat type group
\* every other message; chat type all decides nothing, and neither does chat
\* type group for a group message: without group filters the phone filter
\* alone decides.
ChatTypeCheck ==
    Returned =>
        /\ call.webhook.filter_chat_type = "individual" /\ call.msg.is_group =>
              call.result = FALSE
        /\ call.webhook.filter_chat_type = "group" /\ ~call.msg.is_group =>
              call.result = FALSE
        /\ /\ GroupJIDList = <<>> /\ GroupNameList = <<>>
           /\ \/ call.webhook.filter_chat_type = "all"
              \/ call.webhook.filter_chat_type = "group" /\ call.msg.is_group
              \/ call.webhook.filter_chat_type = "individual" /\ ~call.msg.is_group
           => call.result = PhoneAccepts

\* A webhook with chat type group and no other filter has accepted a group
\* message.
GroupOnlyAccepted ==
    /\ Returned /\ call.result = TRUE
    /\ call.webhook.filter_chat_type = "group" /\ call.msg.is_group
    /\ PhoneList = <<>> /\ GroupJIDList = <<>> /\ GroupNameList = <<>>

\* C27: for a group message and a webhook with a non-empty group-JID list,
\* the filter rejects when the JID of the group is not listed, whoever the
\* sender is, and accepts when it is listed and the list is the only filter.
GroupJIDFilter ==
    Returned /\ call.msg.is_group /\ GroupJIDList # <<>> =>
        /\ ~GroupJIDListed => call.result = FALSE
        /\ GroupJIDListed /\ call.webhook.filter_chat_type = "all"
              /\ PhoneList = <<>> /\ GroupNameList = <<>> =>
              call.result = TRUE

\* C28: for a message outside a group the group lists decide nothing; for a
\* group message and a webhook with a non-empty group-name list, the filter
\* rejects when the display name of the group is not listed, and accepts when
\* it is listed and the list is the only filter.
GroupNameFilter ==
    Returned =>
        /\ ~call.msg.is_group =>
              call.result = (call.webhook.filter_chat_type # "group" /\ PhoneAccepts)
        /\ call.msg.is_group /\ GroupNameList # <<>> =>
              /\ ~GroupNameListed => call.result = FALSE
              /\ GroupNameListed /\ call.webhook.filter_chat_type = "all"
                    /\ PhoneList = <<>> /\ GroupJIDList = <<>> =>
                    call.result = TRUE

\* The delivery rows of a webhook.
RowsOf(webhookID) == {r \in DOMAIN deliveries : deliveries[r].webhook_id = webhookID}

\* C29: the statistics of a webhook report the number of its delivery rows,
\* of those that succeeded and of those that failed, and the success rate as
\* successful/total in percent to the nearest hundredth; with no row the rate
\* is 0, and with one row that succeeded the rate is 100.00%.
StatsReport ==
    response.op = "stats" /\ response.status = 200 =>
        LET st   == response.body.stats
            rows == RowsOf(response.webhook_id)
        IN  /\ st.total_deliveries = Cardinality(rows)
            /\ st.successful = Cardinality({r \in rows : deliveries[r].success = TRUE})
            /\ st.failed = Cardinality({r \in rows : deliveries[r].success = FALSE})
            /\ st.total_deliveries = 0 => st.success_rate = 0
            /\ LET diff == st.success_rate * st.total_deliveries - 10000 * st.successful
               IN  2 * diff <= st.total_deliveries /\ -2 * diff <= st.total_deliveries
            /\ st.total_deliveries = 1 /\ st.successful = 1 =>
                  st.failed = 0 /\ st.success_rate = 10000

\* The statistics have just been asked for a webhook whose only delivery was
\* answered 200, and they report one delivery, one success and 100.00%.
StatsAfterOneSuccess ==
    /\ response.op = "stats" /\ response.status = 200
    /\ \E r \in DOMAIN deliveries :
          /\ RowsOf(response.webhook_id) = {r}
          /\ deliveries[r].response_status = 200
    /\ response.body.stats.total_deliveries = 1
    /\ response.body.stats.successful = 1
    /\ response.body.stats.success_rate = 10000

\* C30: the list of deliveries of a webhook holds at most limit rows, all of
\* that webhook, the newest first and starting after the offset newest ones,
\* with the number of all its rows as total; the limit is the requested one
\* when that is a number in 1..100 and 50 otherwise, the offset the requested
\* one when that is a number >= 0 and 0 otherwise.
ListPage ==
    response.op = "deliveries" /\ response.status = 200 =>
        LET b    == response.body
            q    == response.req
            rows == RowsOf(response.webhook_id)
            left == IF Cardinality(rows) > b.offset THEN Cardinality(rows) - b.offset ELSE 0
        IN  /\ b.limit \in 1..100
            /\ b.limit = IF q.limit.ok /\ q.limit.n \in 1..100 THEN q.limit.n ELSE 50
            /\ b.offset >= 0
            /\ b.offset = IF q.offset.ok /\ q.offset.n >= 0 THEN q.offset.n ELSE 0
            /\ b.total = Cardinality(rows)
            /\ Len(b.deliveries) <= b.limit
            /\ Len(b.deliveries) = IF left < b.limit THEN left ELSE b.limit
            /\ \A i \in 1..Len(b.deliveries) :
                  /\ b.deliveries[i].id \in rows
                  /\ b.deliveries[i].success = deliveries[b.deliveries[i].id].success
                  /\ Cardinality({r \in rows : r > b.deliveries[i].id}) = b.offset + i - 1

\* A list has just been asked with limit 2 and offset 1 for a webhook with
\* three rows, and it holds the two oldest of them.
ListCutByLimit ==
    /\ response.op = "deliveries" /\ response.status = 200
    /\ response.req = [limit |-> Query(2), offset |-> Query(1)]
    /\ response.body.total = 3
    /\ Len(response.body.deliveries) = 2
    /\ response.body.deliveries[1].id > response.body.deliveries[2].id

\* The requests that have been sent and whose outcome is not stored yet.
Sent == {k \in TaskIds : tasks[k].kind \in {"deliver", "retry", "test"}
                            /\ tasks[k].pc = "persist"}

\* C31: every request sent, by a first attempt, a retry or a test delivery,
\* carries the header X-Webhook-Signature exactly when the secret of the
\* webhook row the sender holds is not empty, and the header is then "sha256="
\* followed by the signature of the body sent under that secret.
SignedIffSecret ==
    \A k \in Sent :
        /\ tasks[k].req.signature_header # <<>> <=> tasks[k].wh.secret # ""
        /\ tasks[k].wh.secret # "" =>
              tasks[k].req.signature_header =
                  <<"sha256=">> \o calculateSignature(tasks[k].req.body, tasks[k].wh.secret)

\* A first attempt or a retry of a webhook read without a secret has been sent
\* unsigned, and a test delivery of the same webhook, read after a secret was
\* set, has been sent signed.
UnsignedAndSignedInFlight ==
    \E j, k \in Sent :
        /\ tasks[j].kind \in {"deliver", "retry"}
        /\ tasks[j].wh.secret = "" /\ tasks[j].req.signature_header = <<>>
        /\ tasks[k].kind = "test"
        /\ tasks[k].wh.secret # "" /\ tasks[k].req.signature_header # <<>>

\* C32: ValidateSignature accepts, for a non-empty secret, the signature of
\* the payload under that secret, bare or behind "sha256="; it returns false
\* whenever the secret or the presented signature is empty.
SignatureRoundTrip ==
    call.fn = "ValidateSignature" /\ call.returned =>
        /\ call.secret # ""
              /\ call.signature \in
                     {calculateSignature(call.payload, call.secret),
                      <<"sha256=">> \o calculateSignature(call.payload, call.secret)} =>
              call.result = TRUE
        /\ call.secret = "" \/ call.signature = <<>> => call.result = FALSE

\* ValidateSignature has accepted the prefixed signature of payload "a" under
\* secret "s1".
PrefixedSignatureAccepted ==
    /\ call.fn = "ValidateSignature" /\ call.returned
    /\ call.payload = Str("a") /\ call.secret = "s1"
    /\ call.signature = <<"sha256=">> \o calculateSignature(Str("a"), "s1")
    /\ call.result = TRUE

\* The store with the secret of every webhook replaced as alt says.
WithSecrets(alt) == [w \in DOMAIN webhooks |-> [webhooks[w] EXCEPT !.secret = alt[w]]]

\* C33: the answers of ListWebhooks, CreateWebhook, GetWebhook and
\* UpdateWebhook are the ones the same store with any other secrets gives: the
\* list of the user's rows, or the row concerned, through ToResponse.
ResponsesIgnoreSecrets ==
    \A alt \in [DOMAIN webhooks -> SecretValues] :
        LET store == WithSecrets(alt)
            ids   == Ascending({w \in DOMAIN store : store[w].user_id = response.user_id})
        IN  /\ response.op = "list" =>
                  response.body =
                      [webhooks |-> [i \in 1..Len(ids) |-> ToResponse(ids[i], store[ids[i]])]]
            /\ response.op \in {"create", "get", "update"}
                  /\ response.status \in {200, 201} =>
                  response.body = ToResponse(response.webhook_id, store[response.webhook_id])

\* A user with two webhooks of different secrets has just listed them.
ListedWithTwoSecrets ==
    /\ response.op = "list"
    /\ Len(response.body.webhooks) = 2
    /\ webhooks[response.body.webhooks[1].id].secret
           # webhooks[response.body.webhooks[2].id].secret

\* The three retry states of a delivery row.
PendingRetry(d) == d.success = FALSE /\ d.retry_count < MaxRetries /\ d.next_retry_at # NULL
ExhaustedRow(d) == d.success = FALSE /\ d.retry_count >= MaxRetries /\ d.next_retry_at = NULL
Resolved(d) == d.success = TRUE

\* C34: every delivery row is pending-retry, exhausted or resolved; none has
\* failed with fewer than five retries and no next-retry time.
ThreeRetryStates ==
    \A r \in DOMAIN deliveries :
        PendingRetry(deliveries[r]) \/ ExhaustedRow(deliveries[r]) \/ Resolved(deliveries[r])

\* C35: a delivery row that succeeded has an empty error message, also when
\* it failed with a transport error first and a retry resolved it.
ErrorMessageOnlyOnFailure ==
    \A r \in DOMAIN deliveries :
        deliveries[r].success = TRUE => deliveries[r].error_message = ""

\* C36: the trigger and the tick only start goroutines, they send nothing
\* and store nothing themselves; and whatever the other goroutines are doing,
\* a goroutine can take its next step: its send can return, and its outcome
\* can be stored.
FireAndForget ==
    [][/\ \A k \in TaskIds :
             /\ Launched(k, "deliver") => tasks'[k].pc = "send" /\ deliveries' = deliveries
             /\ Launched(k, "retry") => tasks'[k].pc = "fetch" /\ deliveries' = deliveries
       /\ \A k \in TaskIds :
             /\ tasks[k].kind = "deliver" /\ tasks[k].pc = "send" =>
                   ENABLED DeliverSend(k, 200)
             /\ tasks[k].kind = "deliver" /\ tasks[k].pc = "persist" =>
                   ENABLED DeliverPersist(k)
             /\ tasks[k].kind = "retry" /\ tasks[k].pc = "fetch" =>
                   ENABLED (RetryFetchActive(k) \/ RetryFetchInactive(k)
                               \/ RetryFetchMissing(k))
             /\ tasks[k].kind = "retry" /\ tasks[k].pc = "send" =>
                   ENABLED RetrySend(k, 200)
             /\ tasks[k].kind = "retry" /\ tasks[k].pc = "persist" =>
                   ENABLED RetryPersist(k)]_vars

\* One goroutine of a trigger is still in its send while the row of another
\* destination of that trigger has been stored, retried and resolved.
SlowOneOvertaken ==
    \E k \in TaskIds, r \in DOMAIN deliveries :
        /\ tasks[k].kind = "deliver" /\ tasks[k].pc = "send"
        /\ deliveries[r].webhook_id # tasks[k].wh.id
        /\ deliveries[r].payload.timestamp = 0
        /\ deliveries[r].retry_count = 1 /\ deliveries[r].success = TRUE

\* C37: a row that has succeeded keeps success = true and no retry is sent
\* for it; a row that is exhausted keeps all its fields.
TerminalStates ==
    [][\A r \in DOMAIN deliveries \cap DOMAIN deliveries' :
          /\ Resolved(deliveries[r]) =>
                /\ deliveries'[r].success = TRUE
                /\ \A k \in TaskIds : RetrySendStep(k) => tasks[k].d.id # r
          /\ ExhaustedRow(deliveries[r]) => deliveries'[r] = deliveries[r]]_vars

\* C38: the retry count of every delivery row is in 0..5.
RetryCountInRange ==
    \A r \in DOMAIN deliveries :
        deliveries[r].retry_count >= 0 /\ deliveries[r].retry_count <= MaxRetries

\* A row has reached retry count 5 after more than five re-attempts: retries
\* of it have overlapped.
CountFiveAfterOverlap ==
    \E r \in DOMAIN deliveries :
        deliveries[r].retry_count = MaxRetries /\ retrySends[r] > MaxRetries

\* C39: in every answer of the statistics, successful and failed add up to
\* total_deliveries.
StatsCountsAddUp ==
    response.op = "stats" /\ response.status = 200 =>
        response.body.stats.successful + response.body.stats.failed
            = response.body.stats.total_deliveries

\* A goroutine is in the loop of Broadcast.
Ranging(p) == stream.callers[p].op = "Broadcast" /\ stream.callers[p].pc = "range"

\* C40: Broadcast never sends on a closed channel and its sends never block:
\* inside the loop every client still to visit is open and its select can be
\* taken at once, the clients do not change under the loop, and Broadcast
\* returns after it visited all of them. A select queues the event when the
\* buffer holds fewer than 10 events and drops it for that subscriber alone
\* when the buffer is full; a closed channel is never written to again.
BroadcastNeverBlocksNorPanics ==
    [][/\ ~stream'.panicked
       /\ \A p \in Callers : Ranging(p) =>
             /\ stream.callers[p].todo \subseteq stream.Clients
             /\ stream'.Clients = stream.Clients
             /\ \A ch \in stream.callers[p].todo :
                   /\ ~stream.chans[ch].closed
                   /\ ENABLED BroadcastSelect(p, ch)
                   /\ stream'.callers[p] # stream.callers[p] =>
                         /\ Ranging(p)'
                         /\ stream'.callers[p].todo = stream.callers[p].todo \ {ch} =>
                               /\ stream'.chans[ch].buf =
                                     IF Len(stream.chans[ch].buf) < ChanBuffer
                                     THEN Append(stream.chans[ch].buf, stream.callers[p].event)
                                     ELSE stream.chans[ch].buf
                               /\ \A o \in DOMAIN stream.chans \ {ch} :
                                     stream'.chans[o] = stream.chans[o]
             /\ stream.callers[p].todo = {} => ENABLED BroadcastReturn(p)
       /\ \A p \in Callers :
             stream.callers[p].op = "Broadcast" /\ ~Ranging(p) /\ Ranging(p)' =>
                stream'.callers[p].todo = stream.Clients
       /\ \A ch \in DOMAIN stream.chans :
             stream.chans[ch].closed => stream'.chans[ch] = stream.chans[ch]]_vars

\* A Broadcast has visited two subscribers: the buffer of the first was full
\* and the event was dropped for it, the second has the event in its buffer.
FullOneMissesOtherReceives ==
    \E p \in Callers :
        /\ Ranging(p) /\ stream.callers[p].todo = {}
        /\ stream.Clients = {1, 2} /\ stream.callers[p].full = {1}
        /\ Len(stream.chans[1].buf) = ChanBuffer
        /\ stream.chans[2].buf # <<>>
        /\ stream.chans[2].buf[Len(stream.chans[2].buf)] = stream.callers[p].event

====
